---------------------------- MODULE Spec2Model ----------------------------
(***************************************************************************)
(* Model of the Asterisk manager's monthly access code: the deterministic  *)
(* code generator (serziam.py, serziamvalidator.py, serziamtest.py), the   *)
(* expiry calendar of HiddenAccessCodeManager and the access gate of       *)
(* AccessControlSystem.check_access / _prompt_for_new_code.                *)
(*                                                                         *)
(* Python strings are sequences of one-character strings; Text(s) is the   *)
(* same string as one TLA+ string, used where a string is a lookup key.    *)
(***************************************************************************)
EXTENDS Integers, Sequences, FiniteSets, TLC

(* ------------------------------ bounds -------------------------------- *)

\* The wall clock runs over the calendar years FirstYear..LastYear.
FirstYear == 2024
LastYear == 2025
\* The clock advances at most MaxTicks times while the main program runs.
MaxTicks == 2
\* The longest code length an API call asks for (longer than one digest).
MaxLen == 34

(* ------------------------- program constants -------------------------- *)

\* Config.SECRET_SEED (serziam.py), Config.SECRET_SEED (serziamvalidator.py)
\* and SECRET_SEED (serziamtest.py).
SECRET_SEED == "asterisk_secure_deterministic_v1"
V_SECRET_SEED == "asterisk_secure_deterministic_v1"
T_SECRET_SEED == "asterisk_secure_deterministic_v1"
\* A secret_seed a caller may pass to DeterministicCodeGenerator.__init__
\* instead of the default.
OTHER_SEED == "another_shared_secret"
\* length=8, the default of generate_deterministic_code.
DEFAULT_LENGTH == 8
\* attempts = 3 in _prompt_for_new_code.
MAX_ATTEMPTS == 3

(* ------------------------------ strings ------------------------------- *)

RECURSIVE Text(_)
Text(s) == IF s = <<>> THEN "" ELSE Head(s) \o Text(Tail(s))

Digit(d) ==
  CASE d = 0 -> "0" [] d = 1 -> "1" [] d = 2 -> "2" [] d = 3 -> "3"
    [] d = 4 -> "4" [] d = 5 -> "5" [] d = 6 -> "6" [] d = 7 -> "7"
    [] d = 8 -> "8" [] d = 9 -> "9"

\* format(n, "d"): the decimal digits of n >= 0, most significant first.
RECURSIVE Decimal(_)
Decimal(n) ==
  IF n < 10 THEN <<Digit(n)>> ELSE Append(Decimal(n \div 10), Digit(n % 10))

\* format(n, "02d"): Decimal(n) padded on the left with "0" to width 2.
Decimal02(n) ==
  IF Len(Decimal(n)) < 2 THEN <<"0">> \o Decimal(n) ELSE Decimal(n)

ascii_uppercase ==
  <<"A","B","C","D","E","F","G","H","I","J","K","L","M",
    "N","O","P","Q","R","S","T","U","V","W","X","Y","Z">>
ascii_lowercase ==
  <<"a","b","c","d","e","f","g","h","i","j","k","l","m",
    "n","o","p","q","r","s","t","u","v","w","x","y","z">>
Whitespace == {" ", "\t", "\n"}

\* str.upper() on ASCII text.
UpperChar(c) ==
  IF \E k \in 1..Len(ascii_lowercase) : ascii_lowercase[k] = c
  THEN ascii_uppercase[CHOOSE k \in 1..Len(ascii_lowercase) : ascii_lowercase[k] = c]
  ELSE c
str_upper(s) == [i \in 1..Len(s) |-> UpperChar(s[i])]

\* str.strip(): leading and trailing whitespace removed.
RECURSIVE str_lstrip(_)
str_lstrip(s) ==
  IF s # <<>> /\ Head(s) \in Whitespace THEN str_lstrip(Tail(s)) ELSE s
RECURSIVE str_rstrip(_)
str_rstrip(s) ==
  IF s # <<>> /\ s[Len(s)] \in Whitespace
  THEN str_rstrip(SubSeq(s, 1, Len(s) - 1)) ELSE s
str_strip(s) == str_rstrip(str_lstrip(s))

(* ---------------------------- HMAC-SHA256 ----------------------------- *)

\* hmac.new(key.encode('utf-8'), msg.encode('utf-8'), hashlib.sha256).digest():
\* the 32 bytes the reference implementation returns, tabulated for the two
\* secrets and the periods 12-2023 .. 12-2026, one row <<key, msg, digest>>
\* each.
HmacRows ==
  {
    <<"asterisk_secure_deterministic_v1", "12-2023",
      <<148, 204, 108, 7, 128, 155, 238, 45, 106, 163, 252, 163, 39, 159, 89, 242,
        9, 49, 77, 19, 74, 32, 147, 152, 0, 221, 199, 239, 199, 251, 218, 51>> >>,
    <<"asterisk_secure_deterministic_v1", "01-2024",
      <<109, 25, 8, 95, 58, 74, 44, 150, 180, 20, 132, 62, 255, 165, 152, 233,
        113, 22, 30, 120, 50, 49, 216, 193, 224, 91, 182, 113, 178, 235, 248, 93>> >>,
    <<"asterisk_secure_deterministic_v1", "02-2024",
      <<35, 55, 189, 114, 82, 144, 34, 135, 75, 194, 21, 123, 211, 69, 6, 54,
        124, 131, 9, 28, 101, 65, 110, 82, 205, 35, 230, 227, 188, 254, 202, 84>> >>,
    <<"asterisk_secure_deterministic_v1", "03-2024",
      <<229, 95, 197, 69, 5, 157, 111, 114, 11, 223, 71, 249, 191, 2, 161, 51,
        201, 49, 221, 124, 220, 116, 196, 97, 46, 148, 23, 37, 128, 16, 233, 70>> >>,
    <<"asterisk_secure_deterministic_v1", "04-2024",
      <<122, 157, 68, 235, 52, 89, 213, 104, 35, 53, 87, 237, 209, 187, 89, 224,
        210, 111, 230, 250, 42, 175, 9, 88, 191, 44, 106, 250, 243, 242, 255, 36>> >>,
    <<"asterisk_secure_deterministic_v1", "05-2024",
      <<47, 76, 109, 54, 155, 212, 146, 14, 102, 184, 89, 251, 213, 89, 235, 197,
        182, 213, 71, 147, 166, 7, 75, 6, 1, 236, 85, 99, 235, 26, 28, 130>> >>,
    <<"asterisk_secure_deterministic_v1", "06-2024",
      <<122, 250, 39, 44, 7, 165, 196, 238, 1, 57, 233, 92, 145, 8, 34, 63,
        109, 91, 62, 150, 105, 212, 222, 200, 243, 247, 35, 33, 225, 99, 107, 134>> >>,
    <<"asterisk_secure_deterministic_v1", "07-2024",
      <<185, 237, 59, 36, 137, 106, 153, 39, 198, 134, 25, 236, 59, 73, 202, 168,
        238, 4, 241, 59, 80, 10, 52, 198, 122, 84, 39, 234, 91, 34, 147, 9>> >>,
    <<"asterisk_secure_deterministic_v1", "08-2024",
      <<101, 145, 251, 71, 181, 192, 63, 72, 73, 208, 176, 216, 185, 184, 84, 81,
        5, 102, 180, 15, 67, 40, 122, 184, 75, 60, 219, 103, 93, 104, 210, 179>> >>,
    <<"asterisk_secure_deterministic_v1", "09-2024",
      <<136, 108, 242, 253, 190, 2, 31, 10, 231, 104, 73, 66, 229, 62, 147, 25,
        160, 193, 93, 154, 109, 65, 138, 241, 137, 215, 124, 109, 180, 163, 221, 50>> >>,
    <<"asterisk_secure_deterministic_v1", "10-2024",
      <<160, 146, 225, 240, 173, 182, 74, 242, 189, 156, 143, 53, 158, 239, 133, 64,
        249, 37, 12, 48, 36, 40, 123, 69, 170, 158, 60, 22, 238, 158, 235, 14>> >>,
    <<"asterisk_secure_deterministic_v1", "11-2024",
      <<38, 123, 163, 153, 240, 210, 21, 186, 184, 10, 39, 80, 128, 10, 174, 128,
        159, 156, 104, 122, 255, 50, 99, 226, 253, 142, 104, 127, 207, 197, 222, 176>> >>,
    <<"asterisk_secure_deterministic_v1", "12-2024",
      <<63, 63, 36, 119, 236, 165, 88, 172, 76, 81, 193, 252, 204, 164, 115, 98,
        229, 132, 219, 95, 246, 115, 36, 100, 173, 120, 23, 68, 108, 28, 34, 43>> >>,
    <<"asterisk_secure_deterministic_v1", "01-2025",
      <<111, 235, 55, 190, 2, 126, 182, 92, 70, 118, 173, 83, 124, 143, 40, 189,
        49, 225, 66, 244, 43, 104, 77, 88, 140, 121, 76, 171, 26, 240, 14, 186>> >>,
    <<"asterisk_secure_deterministic_v1", "02-2025",
      <<93, 218, 111, 111, 171, 60, 121, 169, 4, 208, 109, 232, 120, 10, 78, 0,
        151, 129, 174, 104, 49, 59, 226, 113, 127, 40, 0, 63, 224, 97, 227, 170>> >>,
    <<"asterisk_secure_deterministic_v1", "03-2025",
      <<142, 10, 135, 103, 139, 201, 79, 155, 30, 207, 123, 181, 98, 134, 158, 90,
        159, 212, 214, 32, 188, 17, 202, 50, 236, 141, 47, 212, 173, 220, 66, 144>> >>,
    <<"asterisk_secure_deterministic_v1", "04-2025",
      <<142, 74, 230, 41, 167, 27, 211, 71, 251, 51, 195, 102, 74, 100, 203, 17,
        157, 139, 228, 8, 123, 120, 255, 238, 14, 84, 161, 192, 222, 132, 77, 8>> >>,
    <<"asterisk_secure_deterministic_v1", "05-2025",
      <<4, 143, 19, 120, 102, 1, 74, 254, 18, 82, 245, 41, 124, 2, 64, 9,
        186, 149, 90, 50, 84, 176, 200, 146, 108, 213, 230, 196, 42, 42, 197, 233>> >>,
    <<"asterisk_secure_deterministic_v1", "06-2025",
      <<199, 255, 16, 236, 230, 184, 0, 77, 11, 132, 62, 209, 162, 120, 61, 86,
        86, 115, 176, 234, 67, 100, 212, 174, 249, 68, 228, 34, 163, 154, 29, 149>> >>,
    <<"asterisk_secure_deterministic_v1", "07-2025",
      <<40, 54, 140, 145, 58, 39, 45, 209, 240, 44, 234, 18, 14, 28, 43, 208,
        159, 241, 48, 4, 122, 149, 100, 142, 124, 207, 210, 98, 135, 31, 14, 68>> >>,
    <<"asterisk_secure_deterministic_v1", "08-2025",
      <<220, 88, 157, 114, 237, 12, 253, 19, 33, 84, 98, 209, 21, 41, 160, 86,
        186, 116, 17, 72, 226, 18, 84, 255, 10, 14, 5, 151, 216, 220, 197, 249>> >>,
    <<"asterisk_secure_deterministic_v1", "09-2025",
      <<180, 184, 185, 103, 219, 215, 44, 114, 208, 16, 183, 69, 110, 9, 181, 178,
        167, 175, 144, 127, 187, 37, 156, 24, 19, 41, 7, 190, 194, 163, 246, 184>> >>,
    <<"asterisk_secure_deterministic_v1", "10-2025",
      <<76, 81, 75, 11, 87, 122, 12, 14, 4, 11, 111, 12, 19, 66, 215, 181,
        161, 210, 96, 145, 17, 154, 205, 216, 166, 183, 48, 7, 105, 215, 79, 118>> >>,
    <<"asterisk_secure_deterministic_v1", "11-2025",
      <<122, 4, 180, 76, 223, 25, 215, 18, 10, 17, 20, 107, 190, 5, 52, 253,
        16, 118, 134, 72, 112, 205, 17, 83, 41, 42, 72, 67, 201, 70, 216, 96>> >>,
    <<"asterisk_secure_deterministic_v1", "12-2025",
      <<76, 161, 255, 240, 28, 238, 115, 48, 3, 127, 203, 193, 64, 246, 198, 192,
        161, 98, 56, 0, 240, 122, 217, 176, 254, 31, 211, 61, 56, 101, 194, 252>> >>,
    <<"asterisk_secure_deterministic_v1", "01-2026",
      <<210, 28, 49, 245, 151, 240, 1, 38, 71, 190, 187, 236, 235, 231, 203, 223,
        45, 93, 140, 32, 93, 194, 67, 40, 65, 210, 135, 166, 82, 90, 209, 94>> >>,
    <<"asterisk_secure_deterministic_v1", "02-2026",
      <<136, 36, 204, 134, 111, 15, 180, 180, 220, 155, 128, 105, 248, 224, 150, 153,
        116, 158, 60, 158, 172, 99, 105, 72, 177, 172, 165, 149, 176, 29, 239, 153>> >>,
    <<"asterisk_secure_deterministic_v1", "03-2026",
      <<43, 48, 238, 125, 39, 54, 128, 176, 188, 39, 241, 11, 1, 178, 31, 3,
        119, 102, 75, 148, 115, 206, 193, 252, 19, 165, 178, 130, 169, 238, 108, 205>> >>,
    <<"asterisk_secure_deterministic_v1", "04-2026",
      <<170, 2, 124, 157, 173, 151, 82, 55, 83, 19, 171, 91, 164, 154, 145, 186,
        39, 217, 80, 62, 254, 249, 37, 197, 231, 118, 97, 30, 94, 217, 248, 13>> >>,
    <<"asterisk_secure_deterministic_v1", "05-2026",
      <<195, 112, 196, 225, 55, 79, 175, 211, 171, 3, 21, 100, 237, 149, 6, 246,
        216, 45, 169, 14, 97, 183, 138, 56, 112, 110, 59, 99, 103, 226, 118, 240>> >>,
    <<"asterisk_secure_deterministic_v1", "06-2026",
      <<39, 221, 96, 188, 148, 49, 175, 113, 246, 0, 180, 77, 122, 221, 53, 215,
        10, 164, 111, 113, 163, 160, 45, 8, 152, 34, 210, 51, 208, 107, 245, 145>> >>,
    <<"asterisk_secure_deterministic_v1", "07-2026",
      <<2, 10, 166, 141, 80, 16, 223, 226, 18, 92, 254, 234, 231, 149, 63, 159,
        234, 143, 229, 235, 32, 4, 64, 246, 21, 214, 21, 163, 84, 135, 186, 33>> >>,
    <<"asterisk_secure_deterministic_v1", "08-2026",
      <<125, 165, 31, 18, 127, 48, 184, 168, 107, 73, 185, 34, 202, 84, 88, 97,
        189, 112, 142, 209, 185, 254, 203, 41, 160, 120, 112, 41, 184, 201, 125, 210>> >>,
    <<"asterisk_secure_deterministic_v1", "09-2026",
      <<219, 226, 128, 69, 136, 142, 18, 126, 189, 173, 232, 109, 92, 0, 176, 13,
        183, 207, 2, 59, 155, 164, 152, 94, 98, 194, 117, 126, 221, 255, 133, 31>> >>,
    <<"asterisk_secure_deterministic_v1", "10-2026",
      <<104, 47, 11, 176, 43, 124, 183, 84, 118, 34, 129, 170, 107, 253, 178, 151,
        26, 6, 77, 12, 185, 233, 94, 146, 200, 231, 140, 249, 131, 143, 88, 3>> >>,
    <<"asterisk_secure_deterministic_v1", "11-2026",
      <<187, 11, 118, 253, 96, 90, 210, 123, 145, 242, 193, 30, 152, 140, 142, 110,
        217, 63, 178, 0, 33, 51, 225, 208, 139, 177, 208, 238, 118, 238, 212, 150>> >>,
    <<"asterisk_secure_deterministic_v1", "12-2026",
      <<137, 169, 224, 184, 124, 227, 106, 115, 31, 48, 127, 71, 19, 19, 7, 21,
        162, 103, 148, 227, 17, 20, 144, 163, 238, 117, 79, 246, 182, 255, 160, 63>> >>,
    <<"another_shared_secret", "12-2023",
      <<115, 147, 28, 109, 49, 42, 189, 181, 75, 2, 77, 71, 214, 230, 6, 227,
        153, 233, 228, 182, 44, 241, 3, 112, 0, 117, 220, 227, 185, 218, 254, 99>> >>,
    <<"another_shared_secret", "01-2024",
      <<37, 58, 204, 55, 128, 130, 155, 184, 116, 162, 128, 22, 130, 61, 225, 208,
        218, 28, 213, 157, 182, 153, 117, 138, 209, 3, 24, 222, 221, 153, 41, 174>> >>,
    <<"another_shared_secret", "02-2024",
      <<98, 196, 172, 192, 113, 143, 153, 217, 111, 0, 125, 137, 87, 224, 62, 94,
        203, 172, 170, 76, 54, 192, 70, 207, 83, 213, 205, 142, 236, 5, 30, 201>> >>,
    <<"another_shared_secret", "03-2024",
      <<216, 214, 76, 49, 110, 199, 159, 250, 237, 174, 28, 25, 185, 68, 11, 174,
        156, 101, 15, 216, 239, 237, 125, 112, 134, 184, 186, 199, 207, 242, 96, 125>> >>,
    <<"another_shared_secret", "04-2024",
      <<68, 103, 21, 129, 29, 93, 120, 53, 33, 127, 88, 20, 58, 35, 10, 121,
        206, 25, 2, 39, 86, 149, 24, 232, 158, 239, 92, 92, 124, 50, 223, 47>> >>,
    <<"another_shared_secret", "05-2024",
      <<232, 85, 251, 89, 185, 131, 213, 203, 215, 6, 150, 200, 170, 148, 51, 157,
        132, 211, 47, 128, 26, 151, 148, 170, 129, 186, 112, 8, 49, 64, 25, 171>> >>,
    <<"another_shared_secret", "06-2024",
      <<168, 53, 134, 173, 159, 81, 73, 116, 209, 79, 4, 240, 10, 76, 202, 16,
        141, 14, 124, 56, 12, 100, 80, 190, 150, 168, 120, 122, 68, 221, 196, 216>> >>,
    <<"another_shared_secret", "07-2024",
      <<119, 154, 96, 241, 138, 27, 95, 63, 170, 44, 126, 14, 33, 57, 42, 40,
        102, 48, 77, 200, 246, 90, 3, 224, 42, 29, 243, 78, 187, 107, 249, 120>> >>,
    <<"another_shared_secret", "08-2024",
      <<240, 200, 72, 142, 134, 222, 89, 195, 215, 48, 87, 158, 196, 146, 81, 146,
        86, 64, 189, 171, 173, 217, 250, 250, 41, 51, 210, 178, 134, 138, 50, 87>> >>,
    <<"another_shared_secret", "09-2024",
      <<61, 154, 192, 188, 183, 67, 77, 222, 151, 121, 205, 158, 138, 194, 27, 201,
        118, 166, 161, 198, 14, 44, 126, 98, 240, 7, 92, 152, 188, 81, 240, 103>> >>,
    <<"another_shared_secret", "10-2024",
      <<159, 50, 170, 146, 2, 28, 141, 80, 194, 128, 31, 92, 84, 247, 255, 247,
        52, 71, 93, 217, 98, 255, 92, 26, 59, 150, 130, 50, 74, 130, 201, 242>> >>,
    <<"another_shared_secret", "11-2024",
      <<103, 32, 90, 85, 199, 49, 236, 184, 227, 44, 130, 192, 11, 29, 135, 25,
        235, 128, 33, 47, 174, 63, 146, 100, 241, 26, 71, 162, 238, 197, 111, 252>> >>,
    <<"another_shared_secret", "12-2024",
      <<95, 241, 165, 82, 102, 130, 118, 163, 174, 22, 191, 139, 181, 75, 224, 91,
        34, 27, 132, 182, 199, 212, 209, 183, 61, 138, 222, 218, 229, 26, 40, 161>> >>,
    <<"another_shared_secret", "01-2025",
      <<97, 11, 141, 132, 241, 215, 30, 42, 208, 48, 210, 56, 227, 53, 227, 26,
        51, 11, 53, 47, 98, 112, 160, 55, 60, 85, 23, 90, 183, 45, 70, 230>> >>,
    <<"another_shared_secret", "02-2025",
      <<89, 110, 97, 157, 59, 214, 150, 3, 209, 240, 95, 163, 187, 164, 94, 254,
        136, 91, 102, 254, 104, 131, 16, 99, 188, 239, 93, 121, 10, 227, 231, 186>> >>,
    <<"another_shared_secret", "03-2025",
      <<178, 78, 168, 48, 224, 78, 121, 219, 52, 163, 223, 249, 84, 66, 187, 187,
        66, 177, 195, 17, 221, 221, 105, 213, 231, 166, 170, 77, 114, 1, 123, 187>> >>,
    <<"another_shared_secret", "04-2025",
      <<85, 2, 138, 227, 114, 66, 14, 203, 39, 108, 51, 247, 243, 125, 211, 168,
        209, 248, 121, 34, 9, 134, 45, 203, 89, 248, 94, 237, 138, 13, 193, 115>> >>,
    <<"another_shared_secret", "05-2025",
      <<180, 220, 186, 13, 42, 88, 189, 15, 188, 177, 63, 177, 183, 230, 93, 148,
        207, 54, 43, 148, 152, 159, 221, 89, 78, 236, 217, 58, 112, 21, 172, 111>> >>,
    <<"another_shared_secret", "06-2025",
      <<9, 22, 118, 231, 244, 150, 125, 129, 21, 10, 66, 45, 32, 251, 227, 221,
        200, 37, 53, 51, 167, 124, 26, 206, 40, 222, 122, 151, 222, 206, 201, 149>> >>,
    <<"another_shared_secret", "07-2025",
      <<143, 82, 21, 208, 244, 222, 57, 35, 167, 106, 206, 193, 78, 30, 191, 172,
        216, 219, 17, 67, 126, 8, 161, 192, 64, 238, 232, 198, 124, 8, 45, 69>> >>,
    <<"another_shared_secret", "08-2025",
      <<168, 32, 97, 248, 192, 230, 99, 150, 82, 104, 243, 117, 165, 219, 32, 179,
        192, 185, 30, 239, 97, 179, 170, 116, 123, 26, 214, 79, 183, 194, 98, 92>> >>,
    <<"another_shared_secret", "09-2025",
      <<253, 82, 150, 7, 50, 111, 20, 222, 116, 56, 195, 44, 211, 220, 63, 41,
        183, 194, 215, 129, 158, 19, 184, 192, 250, 56, 180, 178, 94, 55, 250, 125>> >>,
    <<"another_shared_secret", "10-2025",
      <<9, 128, 55, 173, 66, 218, 202, 88, 108, 28, 101, 22, 3, 105, 222, 212,
        11, 159, 66, 91, 197, 140, 229, 97, 186, 143, 94, 247, 32, 106, 234, 247>> >>,
    <<"another_shared_secret", "11-2025",
      <<88, 88, 221, 24, 197, 251, 237, 6, 207, 189, 27, 2, 218, 170, 226, 179,
        139, 36, 154, 199, 133, 72, 20, 130, 100, 15, 150, 48, 85, 39, 25, 250>> >>,
    <<"another_shared_secret", "12-2025",
      <<63, 75, 82, 110, 54, 185, 85, 105, 167, 119, 34, 141, 116, 186, 174, 197,
        88, 57, 156, 231, 39, 37, 155, 214, 251, 73, 176, 118, 192, 212, 1, 133>> >>,
    <<"another_shared_secret", "01-2026",
      <<186, 36, 160, 67, 41, 251, 183, 32, 52, 162, 94, 70, 94, 44, 222, 128,
        6, 8, 12, 3, 73, 87, 31, 253, 217, 111, 223, 30, 200, 255, 24, 53>> >>,
    <<"another_shared_secret", "02-2026",
      <<68, 105, 248, 163, 206, 204, 73, 140, 187, 32, 239, 102, 176, 59, 205, 245,
        123, 215, 156, 166, 108, 116, 151, 53, 188, 18, 137, 60, 59, 105, 203, 213>> >>,
    <<"another_shared_secret", "03-2026",
      <<54, 149, 246, 97, 35, 173, 143, 68, 173, 234, 130, 254, 19, 136, 24, 193,
        238, 250, 97, 235, 38, 87, 97, 186, 35, 118, 133, 43, 95, 215, 149, 20>> >>,
    <<"another_shared_secret", "04-2026",
      <<227, 241, 142, 131, 103, 55, 123, 217, 85, 88, 90, 84, 58, 250, 134, 11,
        225, 119, 12, 225, 73, 250, 48, 177, 98, 206, 167, 26, 177, 6, 39, 19>> >>,
    <<"another_shared_secret", "05-2026",
      <<218, 23, 176, 108, 91, 68, 36, 178, 65, 17, 23, 111, 210, 167, 151, 193,
        61, 117, 249, 205, 12, 224, 54, 49, 200, 7, 65, 249, 198, 51, 250, 216>> >>,
    <<"another_shared_secret", "06-2026",
      <<93, 143, 147, 90, 183, 40, 2, 245, 0, 20, 35, 232, 118, 25, 52, 168,
        199, 168, 148, 206, 63, 3, 19, 40, 239, 88, 85, 31, 242, 117, 83, 121>> >>,
    <<"another_shared_secret", "07-2026",
      <<118, 31, 214, 118, 209, 196, 48, 56, 1, 127, 77, 149, 221, 141, 194, 173,
        222, 87, 170, 105, 108, 255, 128, 178, 78, 129, 9, 185, 160, 96, 209, 8>> >>,
    <<"another_shared_secret", "08-2026",
      <<254, 156, 134, 248, 14, 152, 157, 65, 126, 219, 199, 121, 45, 19, 171, 159,
        116, 186, 204, 185, 159, 233, 116, 24, 189, 85, 113, 36, 225, 181, 246, 132>> >>,
    <<"another_shared_secret", "09-2026",
      <<50, 192, 183, 59, 224, 66, 163, 53, 216, 195, 128, 140, 147, 88, 210, 246,
        80, 159, 230, 40, 167, 183, 128, 252, 90, 183, 170, 59, 251, 132, 21, 157>> >>,
    <<"another_shared_secret", "10-2026",
      <<45, 239, 116, 76, 198, 91, 166, 85, 61, 174, 86, 194, 223, 32, 25, 66,
        51, 122, 28, 254, 200, 118, 150, 101, 123, 33, 177, 248, 241, 58, 94, 148>> >>,
    <<"another_shared_secret", "11-2026",
      <<88, 178, 57, 155, 119, 77, 148, 208, 202, 199, 169, 57, 33, 178, 54, 78,
        216, 200, 168, 120, 254, 223, 74, 71, 74, 51, 155, 116, 175, 74, 44, 208>> >>,
    <<"another_shared_secret", "12-2026",
      <<83, 235, 8, 165, 84, 211, 19, 205, 240, 73, 146, 144, 215, 232, 129, 91,
        108, 104, 43, 86, 16, 16, 34, 88, 38, 129, 152, 106, 57, 19, 7, 68>> >>
  }

HmacTable ==
  [km \in { <<r[1], r[2]>> : r \in HmacRows } |->
     (CHOOSE r \in HmacRows : r[1] = km[1] /\ r[2] = km[2])[3]]

hmac_sha256_digest(key, msg) == HmacTable[<<key, msg>>]

(* ------------------- the deterministic code generator ----------------- *)

\* month_year=None, the default argument of generate_deterministic_code.
None == <<"<None>">>

\* Faulty variant of chars: the letter "o" typed for the digit "0".
chars_typo ==
  <<"A","B","C","D","E","F","G","H","I","J","K","L","M",
    "N","O","P","Q","R","S","T","U","V","W","X","Y","Z",
    "o","1","2","3","4","5","6","7","8","9">>

\* chars, the 36-symbol alphabet (serziam.py).
chars ==
  <<"A","B","C","D","E","F","G","H","I","J","K","L","M",
    "N","O","P","Q","R","S","T","U","V","W","X","Y","Z",
    "0","1","2","3","4","5","6","7","8","9">>

\* Faulty variant of get_current_period: the month is taken an hour ahead of
\* the local clock.
get_current_period_ahead(now) ==
  IF now.hour < 23 THEN Decimal02(now.month) \o <<"-">> \o Decimal(now.year)
  ELSE IF now.month < 12
    THEN Decimal02(now.month + 1) \o <<"-">> \o Decimal(now.year)
  ELSE Decimal02(1) \o <<"-">> \o Decimal(now.year + 1)

\* DeterministicCodeGenerator.get_current_period, with now = datetime.now().
get_current_period(now) ==
  Decimal02(now.month) \o <<"-">> \o Decimal(now.year)

\* Faulty variant of code_chars: byte_val kept in one byte, as fixed-width
\* arithmetic would.
code_chars_byte_wrap(hash_bytes, length) ==
  [k \in 1..length |->
     LET i == k - 1
         byte_val == (hash_bytes[(i % Len(hash_bytes)) + 1] + i) % 256
     IN  chars[(byte_val % Len(chars)) + 1]]

\* Faulty variant of code_chars: the additive offset wraps with the digest
\* index.
code_chars_offset_wrap(hash_bytes, length) ==
  [k \in 1..length |->
     LET i == (k - 1) % Len(hash_bytes)
         byte_val == hash_bytes[i + 1] + i
     IN  chars[(byte_val % Len(chars)) + 1]]

\* Faulty variant of code_chars: the additive offset counts from the end
\* of the code.
code_chars_offset_from_end(hash_bytes, length) ==
  [k \in 1..length |->
     LET i == k - 1
         byte_val == hash_bytes[(i % Len(hash_bytes)) + 1] + (length - 1 - i)
     IN  chars[(byte_val % Len(chars)) + 1]]

\* The loop over range(length): character i (0-based) is
\* chars[(hash_bytes[i % len(hash_bytes)] + i) % len(chars)].
code_chars(hash_bytes, length) ==
  [k \in 1..length |->
     LET i == k - 1
         byte_val == hash_bytes[(i % Len(hash_bytes)) + 1] + i
     IN  chars[(byte_val % Len(chars)) + 1]]

\* Faulty variant of generate_deterministic_code: the period is read from
\* the clock even when month_year is given.
generate_deterministic_code_clock(secret_seed, month_year, length, now) ==
  LET my == get_current_period(now)
      hash_bytes == hmac_sha256_digest(secret_seed, Text(my))
  IN  code_chars(hash_bytes, length)

\* DeterministicCodeGenerator.generate_deterministic_code of serziam.py on an
\* instance whose secret_seed is given; now is what datetime.now() returns
\* if the call reads the clock.
generate_deterministic_code(secret_seed, month_year, length, now) ==
  LET my == IF month_year = None THEN get_current_period(now) ELSE month_year
      hash_bytes == hmac_sha256_digest(secret_seed, Text(my))
  IN  code_chars(hash_bytes, length)

\* Faulty variant of get_current_code: from mid-month on the code of the
\* month to come.
get_current_code_early(secret_seed, now) ==
  generate_deterministic_code(secret_seed,
    IF now.day < 15 THEN get_current_period(now)
    ELSE IF now.month < 12
      THEN Decimal02(now.month + 1) \o <<"-">> \o Decimal(now.year)
    ELSE Decimal02(1) \o <<"-">> \o Decimal(now.year + 1),
    DEFAULT_LENGTH, now)

\* DeterministicCodeGenerator.get_current_code.
get_current_code(secret_seed, now) ==
  generate_deterministic_code(secret_seed, get_current_period(now),
                              DEFAULT_LENGTH, now)

\* The copy of the generator in serziamvalidator.py.
V_chars ==
  <<"A","B","C","D","E","F","G","H","I","J","K","L","M",
    "N","O","P","Q","R","S","T","U","V","W","X","Y","Z",
    "0","1","2","3","4","5","6","7","8","9">>

V_get_current_period(now) ==
  Decimal02(now.month) \o <<"-">> \o Decimal(now.year)

\* Faulty variant of the serziamvalidator.py copy: the offset i is not added.
V_generate_no_offset(secret_seed, month_year, length, now) ==
  LET my == IF month_year = None THEN V_get_current_period(now) ELSE month_year
      hash_bytes == hmac_sha256_digest(secret_seed, Text(my))
  IN  [k \in 1..length |->
         LET i == k - 1
             byte_val == hash_bytes[(i % Len(hash_bytes)) + 1]
         IN  V_chars[(byte_val % Len(V_chars)) + 1]]

V_generate_deterministic_code(secret_seed, month_year, length, now) ==
  LET my == IF month_year = None THEN V_get_current_period(now) ELSE month_year
      hash_bytes == hmac_sha256_digest(secret_seed, Text(my))
  IN  [k \in 1..length |->
         LET i == k - 1
             byte_val == hash_bytes[(i % Len(hash_bytes)) + 1] + i
         IN  V_chars[(byte_val % Len(V_chars)) + 1]]

V_get_current_code(secret_seed, now) ==
  V_generate_deterministic_code(secret_seed, V_get_current_period(now),
                                DEFAULT_LENGTH, now)

\* The copy of the generator in serziamtest.py: a module-level function over
\* the module's SECRET_SEED, with no default period.
T_chars ==
  <<"A","B","C","D","E","F","G","H","I","J","K","L","M",
    "N","O","P","Q","R","S","T","U","V","W","X","Y","Z",
    "0","1","2","3","4","5","6","7","8","9">>

T_generate_deterministic_code(month_year, length) ==
  LET hash_bytes == hmac_sha256_digest(T_SECRET_SEED, Text(month_year))
  IN  [k \in 1..length |->
         LET i == k - 1
             byte_val == hash_bytes[(i % Len(hash_bytes)) + 1] + i
         IN  T_chars[(byte_val % Len(T_chars)) + 1]]

(* ------------------------------ datetime ------------------------------ *)

\* datetime(year, month, day, hour, minute, second, microsecond)
datetime(y, m, d, H, M, S, us) ==
  [year |-> y, month |-> m, day |-> d,
   hour |-> H, minute |-> M, second |-> S, microsecond |-> us]

\* Comparison of naive datetimes: field by field, most significant first.
dt_tuple(t) ==
  <<t.year, t.month, t.day, t.hour, t.minute, t.second, t.microsecond>>
RECURSIVE seq_lt(_, _)
seq_lt(a, b) ==
  /\ a # <<>>
  /\ \/ Head(a) < Head(b)
     \/ Head(a) = Head(b) /\ seq_lt(Tail(a), Tail(b))
dt_lt(a, b) == seq_lt(dt_tuple(a), dt_tuple(b))
dt_gt(a, b) == dt_lt(b, a)

_is_leap(year) ==
  year % 4 = 0 /\ (year % 100 # 0 \/ year % 400 = 0)
_DAYS_IN_MONTH == <<31, 28, 31, 30, 31, 30, 31, 31, 30, 31, 30, 31>>
_DAYS_BEFORE_MONTH == <<0, 31, 59, 90, 120, 151, 181, 212, 243, 273, 304, 334>>
_days_in_month(year, month) ==
  IF month = 2 /\ _is_leap(year) THEN 29 ELSE _DAYS_IN_MONTH[month]
_days_before_year(year) ==
  LET y == year - 1
  IN  y * 365 + (y \div 4) - (y \div 100) + (y \div 400)
_days_before_month(year, month) ==
  _DAYS_BEFORE_MONTH[month] + (IF month > 2 /\ _is_leap(year) THEN 1 ELSE 0)
_ymd2ord(year, month, day) ==
  _days_before_year(year) + _days_before_month(year, month) + day

\* The inverse of _ymd2ord: <<year, month, day>> of proleptic ordinal n.
_ord2ymd(n) ==
  LET n0 == n - 1
      n400 == n0 \div 146097
      r400 == n0 % 146097
      n100 == r400 \div 36524
      r100 == r400 % 36524
      n4 == r100 \div 1461
      r4 == r100 % 1461
      n1 == r4 \div 365
      r1 == r4 % 365
      year == n400 * 400 + 1 + n100 * 100 + n4 * 4 + n1
      leapyear == n1 = 3 /\ (n4 # 24 \/ n100 = 3)
      month0 == (r1 + 50) \div 32
      preceding0 == _DAYS_BEFORE_MONTH[month0]
                    + (IF month0 > 2 /\ leapyear THEN 1 ELSE 0)
      month == IF preceding0 > r1 THEN month0 - 1 ELSE month0
      preceding ==
        IF preceding0 > r1
        THEN preceding0 - (_DAYS_IN_MONTH[month]
                           + (IF month = 2 /\ leapyear THEN 1 ELSE 0))
        ELSE preceding0
  IN  IF n1 = 4 \/ n100 = 4
      THEN <<year - 1, 12, 31>>
      ELSE <<year, month, r1 - preceding + 1>>

\* dt - timedelta(days=days): the date moves by whole days through its
\* ordinal, the time of day is kept.
sub_timedelta_days(dt, days) ==
  LET ymd == _ord2ymd(_ymd2ord(dt.year, dt.month, dt.day) - days)
  IN  [dt EXCEPT !.year = ymd[1], !.month = ymd[2], !.day = ymd[3]]

(* ---------------------- HiddenAccessCodeManager ----------------------- *)

\* Faulty variant of expires_at_of: December rolls to January of the same
\* year.
expires_at_same_year(current_date) ==
  LET next_month ==
        IF current_date.month = 12
        THEN datetime(current_date.year, 1, 1, 0, 0, 0, 0)
        ELSE datetime(current_date.year, current_date.month + 1, 1, 0, 0, 0, 0)
      last_day == sub_timedelta_days(next_month, 1)
  IN  [last_day EXCEPT !.hour = 23, !.minute = 59, !.second = 59]

\* get_current_code_with_expiry, lines 135-142: the expiry computed from
\* current_date, the datetime.now() read at its first line.
expires_at_of(current_date) ==
  LET next_month ==
        IF current_date.month = 12
        THEN datetime(current_date.year + 1, 1, 1, 0, 0, 0, 0)
        ELSE datetime(current_date.year, current_date.month + 1, 1, 0, 0, 0, 0)
      last_day == sub_timedelta_days(next_month, 1)
  IN  [last_day EXCEPT !.hour = 23, !.minute = 59, !.second = 59]

\* VisibleAccessCodeManager.display_code_status, lines 90-97: the same
\* computation in serziamvalidator.py.
V_expires_at_of(current_date) ==
  LET next_month ==
        IF current_date.month = 12
        THEN datetime(current_date.year + 1, 1, 1, 0, 0, 0, 0)
        ELSE datetime(current_date.year, current_date.month + 1, 1, 0, 0, 0, 0)
      last_day == sub_timedelta_days(next_month, 1)
  IN  [last_day EXCEPT !.hour = 23, !.minute = 59, !.second = 59]

\* Faulty variant of validate_code: the input is normalised before the
\* comparison.
validate_code_normalizing(input_code, now) ==
  str_upper(str_strip(input_code)) = get_current_code(SECRET_SEED, now)

\* Faulty variant of validate_code: the code of the month before is accepted
\* as well.
validate_code_grace(input_code, now) ==
  \/ input_code = get_current_code(SECRET_SEED, now)
  \/ input_code = get_current_code(SECRET_SEED,
        IF now.month = 1 THEN datetime(now.year - 1, 12, 1, 0, 0, 0, 0)
        ELSE datetime(now.year, now.month - 1, 1, 0, 0, 0, 0))

\* HiddenAccessCodeManager.validate_code, with now the clock value its
\* get_current_code reads.
validate_code(input_code, now) ==
  input_code = get_current_code(SECRET_SEED, now)

\* VisibleAccessCodeManager.validate_code.
V_validate_code(input_code, now) ==
  input_code = V_get_current_code(V_SECRET_SEED, now)

(* ------------------------- the environment ---------------------------- *)

Years == FirstYear..LastYear

\* The instants the wall clock takes in one month: its first instant, an
\* instant in mid-month, the last whole second of the month (the expiry
\* instant) and an instant within that last second.
InstantsOfMonth(y, m) ==
  { datetime(y, m, 1, 0, 0, 0, 0),
    datetime(y, m, 15, 12, 30, 0, 0),
    datetime(y, m, _days_in_month(y, m), 23, 59, 59, 0),
    datetime(y, m, _days_in_month(y, m), 23, 59, 59, 500000) }
Instants == UNION { InstantsOfMonth(y, m) : y \in Years, m \in 1..12 }
FirstInstant == datetime(FirstYear, 1, 1, 0, 0, 0, 0)

\* The instant the clock shows after t, t itself after the last one: the
\* next of the month's four instants, then the first of the next month.
NextInstant(t) ==
  LET last == _days_in_month(t.year, t.month)
  IN  IF t.day = 1 THEN datetime(t.year, t.month, 15, 12, 30, 0, 0)
      ELSE IF t.day = 15 THEN datetime(t.year, t.month, last, 23, 59, 59, 0)
      ELSE IF t.microsecond = 0
        THEN datetime(t.year, t.month, last, 23, 59, 59, 500000)
      ELSE IF t.month < 12 THEN datetime(t.year, t.month + 1, 1, 0, 0, 0, 0)
      ELSE IF t.year < LastYear THEN datetime(t.year + 1, 1, 1, 0, 0, 0, 0)
      ELSE t

\* What an operator may type at a code prompt at instant now, by kind.
str_lower(s) ==
  [i \in 1..Len(s) |->
     IF \E k \in 1..Len(ascii_uppercase) : ascii_uppercase[k] = s[i]
     THEN ascii_lowercase[CHOOSE k \in 1..Len(ascii_uppercase) : ascii_uppercase[k] = s[i]]
     ELSE s[i]]
PreviousMonth(now) ==
  IF now.month = 1
  THEN datetime(now.year - 1, 12, 1, 0, 0, 0, 0)
  ELSE datetime(now.year, now.month - 1, 1, 0, 0, 0, 0)
KeyboardInputs(now) ==
  LET cur == get_current_code(SECRET_SEED, now)
  IN  { [kind |-> "exact", text |-> cur],
        [kind |-> "lower", text |-> str_lower(cur)],
        [kind |-> "padded", text |-> <<" ">> \o cur \o <<"\t">>],
        [kind |-> "lower_padded", text |-> <<"\t">> \o str_lower(cur) \o <<" ">>],
        [kind |-> "mixed_padded",
         text |-> <<"\n", " ">> \o str_lower(SubSeq(cur, 1, 4))
                    \o SubSeq(cur, 5, Len(cur)) \o <<" ">>],
        [kind |-> "prefix", text |-> SubSeq(cur, 1, Len(cur) - 1)],
        [kind |-> "extension", text |-> cur \o <<"A">>],
        [kind |-> "empty", text |-> <<>>],
        [kind |-> "blank", text |-> <<" ">>],
        [kind |-> "previous",
         text |-> get_current_code(SECRET_SEED, PreviousMonth(now))],
        [kind |-> "wrong",
         text |-> [cur EXCEPT ![1] = IF cur[1] = "A" THEN "B" ELSE "A"]] }

(* ------------------------------ state --------------------------------- *)

VARIABLES
  clock,         \* what datetime.now() returns
  ticks,         \* how often the clock advanced while the program ran
  running,       \* AsteriskManager.is_running(): the gated service is up
  pc,            \* the main program's position
  current_date,  \* get_current_code_with_expiry: current_date
  code,          \* get_current_code_with_expiry: code
  expires_at,    \* get_current_code_with_expiry: expires_at
  cmp_now,       \* is_code_expired: the datetime.now() it compares
  expired,       \* is_code_expired: its result
  attempts,      \* _prompt_for_new_code: attempts
  entered,       \* the last line typed at a code prompt, as typed
  entered_code,  \* the same after .strip().upper()
  valid,         \* the result of the last validate_code
  start_ok,      \* the result of the last AsteriskManager.start()
  failures,      \* failed validations of the current unlock dialogue
  exit_path,     \* the return statement _prompt_for_new_code left by
  stop_calls,    \* calls of AsteriskManager.stop() made by check_access
  start_calls,   \* calls of AsteriskManager.start() made by _prompt_for_new_code
  code_expired,  \* system_check_menu: code_expired, "unknown" before its first run
  exit_status,   \* how main() ended: "none" while it runs
  memo,          \* API: the first generate_deterministic_code call
  calls,         \* API: instants at which memo's arguments were derived (capped at 2)
  last,          \* API: the call made at the instant the clock shows
  users,         \* the rows of table users of asterisk.db, in insertion order
  upc,           \* the position of users_menu and of the calls it makes
  phone_number,  \* add_user: the number generate_phone_number returned
  candidate,     \* generate_phone_number: the number drawn last
  extensions_conf, \* the Dial entries of /etc/asterisk/extensions.conf
  pjsip_conf,    \* the sections of /etc/asterisk/pjsip.conf
  reg_last,      \* the last call on UserManager or AsteriskConfigurator
  steps_run,     \* full_system_install: the steps called so far, in order
  install_result, \* full_system_install: what it returned, "none" before
  system,        \* the machine: packages installed, what has been set up
  db_init,       \* initialize_database of the gate's construction: "none" before
  expected_code  \* _prompt_for_new_code: expected_code, None before a dialogue

envVars == <<clock, ticks, running>>
sessionVars == <<stop_calls, start_calls, code_expired, exit_status>>
gateVars ==
  <<pc, current_date, code, expires_at, cmp_now, expired, attempts,
    entered, entered_code, valid, start_ok, failures, exit_path, sessionVars>>
apiVars == <<memo, calls, last>>
regVars ==
  <<users, upc, phone_number, candidate, extensions_conf, pjsip_conf, reg_last>>
installVars == <<steps_run, install_result, system>>
startVars == <<db_init, expected_code>>
adminVars == <<regVars, installVars, startVars>>
vars == <<envVars, gateVars, apiVars, adminVars>>

NoDate == datetime(0, 0, 0, 0, 0, 0, 0)
NoInput == [kind |-> "none", text |-> None]
NoCall == [op |-> "none"]

GateInit ==
  /\ pc = "check_access"
  /\ current_date = NoDate
  /\ code = None
  /\ expires_at = NoDate
  /\ cmp_now = NoDate
  /\ expired = FALSE
  /\ attempts = 0
  /\ entered = NoInput
  /\ entered_code = None
  /\ valid = FALSE
  /\ start_ok = FALSE
  /\ failures = 0
  /\ exit_path = "none"
  /\ stop_calls = 0
  /\ start_calls = 0
  /\ code_expired = "unknown"
  /\ exit_status = "none"

ApiInit ==
  /\ memo = NoCall
  /\ calls = 0
  /\ last = NoCall

\* No users menu and no installation is under way; the registry and the
\* configuration files are those of a fresh host.
\* check_and_install_packages, lines 13-19 of serziamupdate.py.
required_packages == {"asterisk", "iptables", "ufw", "sqlite3", "python3-pip"}

\* A machine on which nothing is installed or set up yet.
FreshSystem ==
  [installed |-> {}, firewall |-> FALSE, asterisk |-> FALSE, database |-> FALSE]

AdminInit ==
  /\ users = <<>>
  /\ upc = "none"
  /\ phone_number = None
  /\ candidate = None
  /\ extensions_conf = None
  /\ pjsip_conf = None
  /\ reg_last = NoCall
  /\ steps_run = <<>>
  /\ install_result = "none"
  /\ system = FreshSystem
  /\ db_init = "none"
  /\ expected_code = None

\* main() of serziam.py starts at any instant, with Asterisk up or down.
Init ==
  /\ clock \in Instants
  /\ ticks = 0
  /\ running \in BOOLEAN
  /\ GateInit
  /\ ApiInit
  /\ AdminInit

(* --------------------------- the wall clock --------------------------- *)

Tick ==
  /\ ticks < MaxTicks
  /\ NextInstant(clock) # clock
  /\ clock' = NextInstant(clock)
  /\ ticks' = ticks + 1
  /\ UNCHANGED <<running, gateVars, apiVars, adminVars>>

(* --------------------------- AsteriskManager -------------------------- *)

\* AsteriskManager.stop(): True when is_running() is False afterwards; a
\* False result (pkill failed or raised, Asterisk still answers) leaves the
\* service in either state.
stop_outcomes ==
  { [result |-> TRUE, running |-> FALSE],
    [result |-> FALSE, running |-> TRUE],
    [result |-> FALSE, running |-> FALSE] }

\* AsteriskManager.start(): True when is_running() is True afterwards.
start_outcomes ==
  { [result |-> TRUE, running |-> TRUE],
    [result |-> FALSE, running |-> FALSE],
    [result |-> FALSE, running |-> TRUE] }

(* ------------------------ AccessControlSystem ------------------------- *)

\* is_code_expired, line 168: datetime.now() > expires_at.
is_expired_at(now, expiry) == dt_gt(now, expiry)

\* Faulty variant of attempts_after_failure: two attempts per failure.
attempts_after_failure_twice(n) == n - 2

\* The attempt counter after a failed validation: attempts -= 1.
attempts_after_failure(n) == n - 1

\* Faulty variant of position_after_start: the result of start() is ignored.
position_after_start_ignored(result) == "menu"

\* _prompt_for_new_code, lines 487-492: return True if start() succeeded
\* (the menu is entered), False otherwise.
position_after_start(result) == IF result THEN "menu" ELSE "blocked"

\* check_access -> is_code_expired -> get_current_code_with_expiry, line 131:
\* current_date = datetime.now().
ReadCurrentDate ==
  /\ pc = "check_access"
  /\ current_date' = clock
  /\ pc' = "read_code"
  /\ UNCHANGED <<envVars, code, expires_at, cmp_now, expired, attempts,
                 entered, entered_code, valid, start_ok, failures, exit_path,
                 sessionVars, apiVars, adminVars>>

\* get_current_code_with_expiry, lines 132-144: the code of the period the
\* clock now shows, and the expiry computed from current_date.
ReadCurrentCode ==
  /\ pc = "read_code"
  /\ code' = get_current_code(SECRET_SEED, clock)
  /\ expires_at' = expires_at_of(current_date)
  /\ pc' = "compare"
  /\ UNCHANGED <<envVars, current_date, cmp_now, expired, attempts,
                 entered, entered_code, valid, start_ok, failures, exit_path,
                 sessionVars, apiVars, adminVars>>

\* is_code_expired, line 168: the comparison against a fresh datetime.now().
CompareExpiry ==
  /\ pc = "compare"
  /\ cmp_now' = clock
  /\ expired' = is_expired_at(clock, expires_at)
  /\ pc' = "branch"
  /\ UNCHANGED <<envVars, current_date, code, expires_at, attempts,
                 entered, entered_code, valid, start_ok, failures, exit_path,
                 sessionVars, apiVars, adminVars>>

\* _prompt_for_new_code, line 481: input(...).strip().upper().
prompt_entered_code(line) == str_upper(str_strip(line))

\* Faulty variant of menu_test_code: the line is not stripped.
menu_test_code_unstripped(line) == str_upper(line)

\* validate_code_menu of serziam.py, line 837: input(...).strip().upper().
menu_test_code(line) == str_upper(str_strip(line))

\* validate_code_menu of serziamvalidator.py, line 182:
\* input(...).strip().upper().
V_menu_test_code(line) == str_upper(str_strip(line))

\* Faulty variant of CheckAccessValid: the service is stopped although the
\* code is not expired.
CheckAccessValid_stopping ==
  /\ pc = "branch"
  /\ ~expired
  /\ pc' = "menu"
  /\ running' = FALSE
  /\ stop_calls' = stop_calls + 1
  /\ current_date' = NoDate
  /\ code' = None
  /\ expires_at' = NoDate
  /\ cmp_now' = NoDate
  /\ UNCHANGED <<clock, ticks, expired, attempts, entered, entered_code, valid,
                 start_ok, failures, exit_path, start_calls, code_expired,
                 exit_status, apiVars, adminVars>>

\* check_access, lines 464-466: the code is not expired, return True; the
\* locals of is_code_expired are gone.
CheckAccessValid ==
  /\ pc = "branch"
  /\ ~expired
  /\ pc' = "menu"
  /\ current_date' = NoDate
  /\ code' = None
  /\ expires_at' = NoDate
  /\ cmp_now' = NoDate
  /\ UNCHANGED <<envVars, expired, attempts, entered, entered_code, valid,
                 start_ok, failures, exit_path, sessionVars, apiVars, adminVars>>

\* Faulty variant of CheckAccessExpired: the dialogue starts without stop().
CheckAccessExpired_without_stop ==
  /\ pc = "branch"
  /\ expired
  /\ attempts' = MAX_ATTEMPTS
  /\ failures' = 0
  /\ pc' = "prompt"
  /\ expected_code' = get_current_code(SECRET_SEED, clock)
  /\ current_date' = NoDate
  /\ code' = None
  /\ expires_at' = NoDate
  /\ cmp_now' = NoDate
  /\ UNCHANGED <<envVars, expired, entered, entered_code, valid,
                 start_ok, exit_path, sessionVars, apiVars, regVars, installVars,
                 db_init>>

\* check_access, lines 455-463, and _prompt_for_new_code up to its loop:
\* stop Asterisk (the result is not looked at), then expected_code is the
\* code of the period the clock shows (lines 470-472) and attempts = 3.
CheckAccessExpired ==
  /\ pc = "branch"
  /\ expired
  /\ \E o \in stop_outcomes : running' = o.running
  /\ stop_calls' = stop_calls + 1
  /\ attempts' = MAX_ATTEMPTS
  /\ failures' = 0
  /\ pc' = "prompt"
  /\ expected_code' = get_current_code(SECRET_SEED, clock)
  /\ current_date' = NoDate
  /\ code' = None
  /\ expires_at' = NoDate
  /\ cmp_now' = NoDate
  /\ UNCHANGED <<clock, ticks, expired, entered, entered_code, valid,
                 start_ok, exit_path, start_calls, code_expired, exit_status,
                 apiVars, regVars, installVars,
                 db_init>>

\* One turn of the loop of _prompt_for_new_code, lines 479-503: a line is
\* read, stripped and upper-cased, and validated against the code of the
\* period the clock shows now; Asterisk is started on success. start()
\* returns its result, or a KeyboardInterrupt raised while it runs (it
\* catches Exception only) reaches the handler of line 501, which returns
\* False with the service in either state.
EnterCode ==
  /\ pc = "prompt"
  /\ attempts > 0
  /\ \E inp \in KeyboardInputs(clock) :
       LET typed == prompt_entered_code(inp.text)
           ok == validate_code(typed, clock)
       IN  /\ entered' = inp
           /\ entered_code' = typed
           /\ valid' = ok
           /\ IF ok
              THEN /\ start_calls' = start_calls + 1
                   /\ \/ \E o \in start_outcomes :
                           /\ running' = o.running
                           /\ start_ok' = o.result
                           /\ pc' = position_after_start(o.result)
                           /\ exit_path' = IF o.result THEN "unlocked" ELSE "start_failed"
                      \/ /\ running' \in BOOLEAN
                         /\ start_ok' = FALSE
                         /\ pc' = "blocked"
                         /\ exit_path' = "start_interrupted"
                   /\ UNCHANGED <<attempts, failures>>
              ELSE /\ attempts' = attempts_after_failure(attempts)
                   /\ failures' = failures + 1
                   /\ pc' = IF attempts' > 0 THEN "prompt" ELSE "blocked"
                   /\ exit_path' = IF attempts' > 0 THEN exit_path ELSE "exhausted"
                   /\ UNCHANGED <<running, start_ok, start_calls>>
  /\ UNCHANGED <<clock, ticks, current_date, code, expires_at, cmp_now,
                 expired, stop_calls, code_expired, exit_status, apiVars, adminVars>>

\* Faulty variant of CancelPrompt: the loop goes on after the interrupt.
CancelPrompt_continue ==
  /\ pc = "prompt"
  /\ attempts > 0
  /\ pc' = "prompt"
  /\ exit_path' = "cancelled"
  /\ UNCHANGED <<envVars, current_date, code, expires_at, cmp_now, expired,
                 attempts, entered, entered_code, valid, start_ok, failures,
                 sessionVars, apiVars, adminVars>>

\* KeyboardInterrupt at the prompt, lines 501-503: return False.
CancelPrompt ==
  /\ pc = "prompt"
  /\ attempts > 0
  /\ pc' = "blocked"
  /\ exit_path' = "cancelled"
  /\ UNCHANGED <<envVars, current_date, code, expires_at, cmp_now, expired,
                 attempts, entered, entered_code, valid, start_ok, failures,
                 sessionVars, apiVars, adminVars>>

(* ------------------------ CompleteMenuManager ------------------------- *)

\* Faulty variant of AccessDenied: main_menu goes on into its loop.
AccessDenied_into_menu ==
  /\ pc = "blocked"
  /\ pc' = "menu"
  /\ UNCHANGED <<envVars, current_date, code, expires_at, cmp_now, expired,
                 attempts, entered, entered_code, valid, start_ok, failures,
                 exit_path, sessionVars, apiVars, adminVars>>

\* main_menu, lines 538-540: check_access returned False, the menu returns,
\* and main() returns after it (lines 917-918).
AccessDenied ==
  /\ pc = "blocked"
  /\ pc' = "exited"
  /\ exit_status' = "returned"
  /\ UNCHANGED <<envVars, current_date, code, expires_at, cmp_now, expired,
                 attempts, entered, entered_code, valid, start_ok, failures,
                 exit_path, stop_calls, start_calls, code_expired, apiVars, adminVars>>

\* main_menu, choice "5", access_codes_menu, validate_code_menu, lines
\* 831-844: a typed line is stripped, upper-cased and validated.
ValidateCodeMenu ==
  /\ pc = "menu"
  /\ \E inp \in KeyboardInputs(clock) :
       /\ entered' = inp
       /\ entered_code' = menu_test_code(inp.text)
       /\ valid' = validate_code(entered_code', clock)
  /\ UNCHANGED <<envVars, pc, current_date, code, expires_at, cmp_now,
                 expired, attempts, start_ok, failures, exit_path,
                 sessionVars, apiVars, adminVars>>

\* Faulty variant of SystemCheckMenu: an expired code locks the gate again.
SystemCheckMenu_relock ==
  /\ pc = "menu"
  /\ code_expired' = IF is_expired_at(clock, expires_at_of(clock))
                     THEN "expired" ELSE "valid"
  /\ IF code_expired' = "expired"
     THEN /\ running' = FALSE
          /\ stop_calls' = stop_calls + 1
          /\ attempts' = MAX_ATTEMPTS
          /\ failures' = 0
          /\ pc' = "prompt"
     ELSE UNCHANGED <<running, stop_calls, attempts, failures, pc>>
  /\ UNCHANGED <<clock, ticks, current_date, code, expires_at, cmp_now,
                 expired, entered, entered_code, valid, start_ok, exit_path,
                 start_calls, exit_status, apiVars, adminVars>>

\* main_menu, choice "6", system_check_menu, lines 871-899: is_code_expired
\* is called and its result printed. Its two clock reads (line 131 for the
\* expiry, line 168 for the comparison) see the same instant or the clock
\* advances between them.
SystemCheckMenu ==
  /\ pc = "menu"
  /\ \E now \in {clock} \cup (IF ticks < MaxTicks THEN {NextInstant(clock)} ELSE {}) :
       /\ clock' = now
       /\ ticks' = IF now = clock THEN ticks ELSE ticks + 1
       /\ code_expired' = IF is_expired_at(now, expires_at_of(clock))
                          THEN "expired" ELSE "valid"
  /\ UNCHANGED <<running, pc, current_date, code, expires_at, cmp_now,
                 expired, attempts, entered, entered_code, valid, start_ok,
                 failures, exit_path, stop_calls, start_calls, exit_status,
                 apiVars, adminVars>>

\* main_menu, choice "4", asterisk_control_menu, lines 728-759: the operator
\* starts, stops or restarts Asterisk.
AsteriskControlMenu ==
  /\ pc = "menu"
  /\ \E choice \in {"1", "2", "3"} :
       \E o \in (IF choice = "2" THEN stop_outcomes ELSE start_outcomes) :
         running' = o.running
  /\ UNCHANGED <<clock, ticks, gateVars, apiVars, adminVars>>

\* main_menu, choice "7": sys.exit(0), which main() lets through.
Quit ==
  /\ pc = "menu"
  /\ pc' = "exited"
  /\ exit_status' = "sys_exit_0"
  /\ UNCHANGED <<envVars, current_date, code, expires_at, cmp_now, expired,
                 attempts, entered, entered_code, valid, start_ok, failures,
                 exit_path, stop_calls, start_calls, code_expired, apiVars, adminVars>>

Next ==
  \/ Tick
  \/ ReadCurrentDate
  \/ ReadCurrentCode
  \/ CompareExpiry
  \/ CheckAccessValid
  \/ CheckAccessExpired
  \/ EnterCode
  \/ CancelPrompt
  \/ AccessDenied
  \/ ValidateCodeMenu
  \/ SystemCheckMenu
  \/ AsteriskControlMenu
  \/ Quit

Spec == Init /\ [][Next]_vars

\* The gate's state, read off the program's position.
GateState ==
  CASE pc = "branch" /\ expired -> "LOCKED"
    [] pc = "prompt" -> "PROMPTING"
    [] pc = "menu" -> "UNLOCKED"
    [] pc = "blocked" -> "BLOCKED"
    [] pc = "exited" /\ exit_status = "returned" -> "BLOCKED"
    [] OTHER -> "NONE"

(* ------------------- calls on the generator's API --------------------- *)
(* A client of the three copies of the generator (as test_synchronization  *)
(* of serziamtest.py and of the menus is): it calls them with explicit     *)
(* arguments at any instant, and calls validate_code with a line as typed. *)

Secrets == {SECRET_SEED, OTHER_SEED}
\* The period a call names explicitly, one of test_periods of
\* serziamtest.py; the periods read from the clock are all those of Years.
ApiPeriods == { <<"0","6","-","2","0","2","5">> }
Lengths == {0, DEFAULT_LENGTH, MaxLen}

Call(op, s, my, n, inp, c, cV, cT, r, rV) ==
  [op |-> op, secret |-> s, month_year |-> my, length |-> n, input |-> inp,
   code |-> c, codeV |-> cV, codeT |-> cT, result |-> r, resultV |-> rV]

SameArguments(a, b) ==
  /\ a.secret = b.secret
  /\ a.month_year = b.month_year
  /\ a.length = b.length

\* generate_deterministic_code(month_year, length) on an instance of each
\* copy constructed with the same secret_seed (serziamtest.py has only its
\* module's SECRET_SEED).
CallGenerate ==
  /\ \E s \in Secrets, my \in ApiPeriods, n \in Lengths :
       LET c == Call("generate", s, my, n, NoInput,
                     generate_deterministic_code(s, my, n, clock),
                     V_generate_deterministic_code(s, my, n, clock),
                     T_generate_deterministic_code(my, n),
                     FALSE, FALSE)
       IN  /\ last' = c
           /\ memo' = IF memo = NoCall THEN c ELSE memo
           /\ calls' = IF memo = NoCall THEN 1
                       ELSE IF SameArguments(memo, c) /\ last = NoCall /\ calls < 2
                       THEN calls + 1 ELSE calls
  /\ UNCHANGED <<envVars, gateVars, adminVars>>

\* generate_deterministic_code(length=n): month_year is None and the period
\* is read from the clock.
CallGenerateDefault ==
  /\ \E s \in Secrets, n \in Lengths :
       last' = Call("generate_default", s, None, n, NoInput,
                    generate_deterministic_code(s, None, n, clock),
                    V_generate_deterministic_code(s, None, n, clock),
                    None, FALSE, FALSE)
  /\ UNCHANGED <<envVars, gateVars, adminVars, memo, calls>>

\* get_current_code().
CallGetCurrentCode ==
  /\ \E s \in Secrets :
       last' = Call("get_current_code", s, None, DEFAULT_LENGTH, NoInput,
                    get_current_code(s, clock), V_get_current_code(s, clock),
                    None, FALSE, FALSE)
  /\ UNCHANGED <<envVars, gateVars, adminVars, memo, calls>>

\* get_current_period() of serziam.py and of serziamvalidator.py.
CallGetCurrentPeriod ==
  /\ last' = Call("get_current_period", SECRET_SEED, None, DEFAULT_LENGTH,
                  NoInput, get_current_period(clock),
                  V_get_current_period(clock), None, FALSE, FALSE)
  /\ UNCHANGED <<envVars, gateVars, adminVars, memo, calls>>

\* validate_code(input_code) of the hidden and of the visible manager, with
\* the line passed as typed.
CallValidate ==
  /\ \E inp \in KeyboardInputs(clock) :
       last' = Call("validate", SECRET_SEED, None, DEFAULT_LENGTH, inp,
                    None, None, None,
                    validate_code(inp.text, clock),
                    V_validate_code(inp.text, clock))
  /\ UNCHANGED <<envVars, gateVars, adminVars, memo, calls>>

\* validate_code_menu of serziamvalidator.py, lines 175-189: a typed line is
\* stripped, upper-cased and validated by the visible manager.
V_ValidateCodeMenu ==
  /\ \E inp \in KeyboardInputs(clock) :
       LET test_code == V_menu_test_code(inp.text)
       IN  last' = Call("V_validate_code_menu", V_SECRET_SEED, None,
                        DEFAULT_LENGTH, inp, None, test_code, None,
                        FALSE, V_validate_code(test_code, clock))
  /\ UNCHANGED <<envVars, gateVars, adminVars, memo, calls>>

\* The clock of the client: it runs on to the last instant. The call that
\* last records was made at the instant the clock shows, so a tick drops it.
ApiTick ==
  /\ NextInstant(clock) # clock
  /\ clock' = NextInstant(clock)
  /\ last' = NoCall
  /\ UNCHANGED <<ticks, running, gateVars, adminVars, memo, calls>>

InitApi ==
  /\ clock = FirstInstant
  /\ ticks = 0
  /\ running = FALSE
  /\ GateInit
  /\ ApiInit
  /\ AdminInit

NextApi ==
  \/ ApiTick
  \/ CallGenerate
  \/ CallGenerateDefault
  \/ CallGetCurrentPeriod
  \/ CallGetCurrentCode
  \/ CallValidate
  \/ V_ValidateCodeMenu

SpecApi == InitApi /\ [][NextApi]_vars

(* ----------------------------- UserManager ---------------------------- *)
(* The users menu of serziam.py on the table users of asterisk.db. Every   *)
(* access to the store may raise (sqlite3 cannot open or lock the file).   *)

\* random.choice draws six digits; the model draws the numbers 0..MaxRandom
\* written with six digits.
MaxRandom == 1

EXTENSION_PREFIX == <<"6", "0", "1">>
RANDOM_DIGITS == 6

RECURSIVE ZeroPad(_, _)
ZeroPad(s, width) ==
  IF Len(s) >= width THEN s ELSE ZeroPad(<<"0">> \o s, width)

\* generate_phone_number, line 268: six characters of string.digits.
random_digits(r) == ZeroPad(Decimal(r), RANDOM_DIGITS)

\* Faulty variant of make_phone_number: the prefix is left out.
make_phone_number_bare(r) == random_digits(r)

\* generate_phone_number, line 269: f"{Config.EXTENSION_PREFIX}{random_digits}".
make_phone_number(r) == EXTENSION_PREFIX \o random_digits(r)

\* The numbers generate_phone_number can draw.
Numbers == { make_phone_number(r) : r \in 0..MaxRandom }

\* A row of table users: numero, password, context.
Row(numero, password, context) ==
  [numero |-> numero, password |-> password, context |-> context]

\* SELECT id FROM users WHERE numero = ?, line 272: is there such a row.
select_by_numero(rows, numero) ==
  \E i \in 1..Len(rows) : rows[i].numero = numero

\* list_users, line 311: the numbers, newest row first.
list_users(rows) == [i \in 1..Len(rows) |-> rows[Len(rows) - i + 1].numero]

\* Faulty variant of delete_rows: the rows from the given number on go.
delete_rows_from(rows, numero) ==
  IF select_by_numero(rows, numero)
  THEN SubSeq(rows, 1, (CHOOSE i \in 1..Len(rows) : rows[i].numero = numero) - 1)
  ELSE rows

\* DELETE FROM users WHERE numero = ?, line 327.
delete_rows(rows, numero) ==
  LET keep(k) == rows[k].numero # numero
      RECURSIVE filter(_)
      filter(k) == IF k = 0 THEN <<>>
                   ELSE IF keep(k) THEN Append(filter(k - 1), rows[k])
                   ELSE filter(k - 1)
  IN  filter(Len(rows))

\* _create_extensions_config, lines 398-401: one Dial entry per listed user.
extensions_entries(listed) == listed

\* _create_pjsip_config, lines 416-436: an endpoint, an auth and an aor
\* section per listed user.
pjsip_sections(listed) ==
  [k \in 1..(3 * Len(listed)) |->
     [name |-> listed[((k - 1) \div 3) + 1],
      type |-> <<"endpoint", "auth", "aor">>[((k - 1) % 3) + 1]]]

RegCall(op, numero, ok) == [op |-> op, numero |-> numero, ok |-> ok]

\* main_menu, choice "2": users_menu is entered.
EnterUsersMenu ==
  /\ pc = "menu"
  /\ upc = "none"
  /\ upc' = "users_menu"
  /\ UNCHANGED <<envVars, gateVars, apiVars, users, phone_number, candidate,
                 extensions_conf, pjsip_conf, reg_last, installVars, startVars>>

\* users_menu, choice "0": back to the main menu.
LeaveUsersMenu ==
  /\ upc = "users_menu"
  /\ upc' = "none"
  /\ UNCHANGED <<envVars, gateVars, apiVars, users, phone_number, candidate,
                 extensions_conf, pjsip_conf, reg_last, installVars, startVars>>

\* users_menu, choice "1", add_user_menu, lines 648-668, up to the loop of
\* generate_phone_number: without a password nothing is called; otherwise
\* add_user calls generate_phone_number, which connects to the store or
\* returns None, and then add_user returns False.
AddUserMenu ==
  /\ upc = "users_menu"
  /\ \E password \in {<<>>, <<"p", "w">>}, connected \in BOOLEAN :
       IF password = <<>>
       THEN UNCHANGED <<upc, reg_last>>
       ELSE IF connected
       THEN upc' = "generate" /\ UNCHANGED reg_last
       ELSE upc' = "users_menu" /\ reg_last' = RegCall("add_user", None, FALSE)
  /\ UNCHANGED <<envVars, gateVars, apiVars, users, phone_number, candidate,
                 extensions_conf, pjsip_conf, installVars, startVars>>

\* One turn of the loop of generate_phone_number, lines 266-274: draw a
\* number, look it up, return it if no row has it, else go round again.
GenerateDraw(r) ==
  /\ upc = "generate"
  /\ candidate' = make_phone_number(r)
  /\ IF select_by_numero(users, candidate')
     THEN UNCHANGED <<upc, phone_number>>
     ELSE upc' = "insert" /\ phone_number' = candidate'
  /\ UNCHANGED <<envVars, gateVars, apiVars, users, extensions_conf,
                 pjsip_conf, reg_last, installVars, startVars>>

\* generate_phone_number, lines 276-278: the lookup raises, None is returned
\* and add_user returns False (lines 284-285).
GenerateFails ==
  /\ upc = "generate"
  /\ upc' = "users_menu"
  /\ candidate' = None
  /\ reg_last' = RegCall("add_user", None, FALSE)
  /\ UNCHANGED <<envVars, gateVars, apiVars, users, phone_number,
                 extensions_conf, pjsip_conf, installVars, startVars>>

\* add_user, lines 287-303, and add_user_menu, lines 659-665: the INSERT
\* (numero is UNIQUE) succeeds and the number is returned, or it raises and
\* False is returned; the menu goes on to configure_asterisk on success.
InsertUser ==
  /\ upc = "insert"
  /\ \E ok \in BOOLEAN :
       IF ok /\ ~select_by_numero(users, phone_number)
       THEN /\ users' = Append(users, Row(phone_number, <<"p", "w">>, "default"))
            /\ reg_last' = RegCall("add_user", phone_number, TRUE)
            /\ upc' = "configure"
       ELSE /\ users' = users
            /\ reg_last' = RegCall("add_user", None, FALSE)
            /\ upc' = "users_menu"
  /\ phone_number' = None
  /\ candidate' = None
  /\ UNCHANGED <<envVars, gateVars, apiVars, extensions_conf, pjsip_conf,
                 installVars, startVars>>

\* users_menu, choice "2", delete_user_menu, lines 670-706, with the list
\* users_menu has just read (empty if the read failed): the operator picks
\* an entry and confirms or not; delete_user deletes the rows with that
\* number and returns True, or raises and returns False; the menu goes on
\* to configure_asterisk on True.
DeleteUserMenu ==
  /\ upc = "users_menu"
  /\ \E read \in BOOLEAN :
       LET shown == IF read THEN list_users(users) ELSE <<>>
       IN  /\ Len(shown) > 0
           /\ \E choice \in 1..Len(shown), confirm \in BOOLEAN, ok \in BOOLEAN :
                IF ~confirm
                THEN UNCHANGED <<users, reg_last, upc>>
                ELSE IF ok
                THEN /\ users' = delete_rows(users, shown[choice])
                     /\ reg_last' = RegCall("delete_user", shown[choice], TRUE)
                     /\ upc' = "configure"
                ELSE /\ users' = users
                     /\ reg_last' = RegCall("delete_user", shown[choice], FALSE)
                     /\ upc' = "users_menu"
  /\ UNCHANGED <<envVars, gateVars, apiVars, phone_number, candidate,
                 extensions_conf, pjsip_conf, installVars, startVars>>

\* UserManager.delete_user(phone_number), lines 321-336, called with any
\* number while no menu is open.
CallDeleteUser ==
  /\ pc = "menu"
  /\ upc = "none"
  /\ \E numero \in Numbers, ok \in BOOLEAN :
       /\ users' = IF ok THEN delete_rows(users, numero) ELSE users
       /\ reg_last' = RegCall("delete_user", numero, ok)
  /\ UNCHANGED <<envVars, gateVars, apiVars, upc, phone_number, candidate,
                 extensions_conf, pjsip_conf, installVars, startVars>>

\* configure_asterisk, lines 348-369, with _create_extensions_config and
\* _create_pjsip_config: the directory, sip.conf, extensions.conf and
\* pjsip.conf are written in this order until one of them raises; each
\* of the two files lists the users list_users returns at that moment,
\* which is [] when the store cannot be read. reg_last notes the result and
\* whether both reads of the store succeeded.
Configure(next_upc) ==
  \E fail_at \in {"none", "makedirs", "sip", "extensions", "pjsip"},
     read1 \in BOOLEAN, read2 \in BOOLEAN :
    /\ extensions_conf' =
         IF fail_at \in {"none", "pjsip"}
         THEN extensions_entries(IF read1 THEN list_users(users) ELSE <<>>)
         ELSE extensions_conf
    /\ pjsip_conf' =
         IF fail_at = "none"
         THEN pjsip_sections(IF read2 THEN list_users(users) ELSE <<>>)
         ELSE pjsip_conf
    /\ reg_last' = [op |-> "configure_asterisk", numero |-> None,
                    ok |-> fail_at = "none", listed |-> read1 /\ read2]
    /\ upc' = next_upc
    /\ UNCHANGED <<envVars, gateVars, apiVars, users, phone_number, candidate,
                   installVars, startVars>>

\* add_user_menu, line 663, and delete_user_menu, line 698: the call of
\* configure_asterisk after the mutation, then back to users_menu.
ConfigureAfterMutation ==
  /\ upc = "configure"
  /\ Configure("users_menu")

\* users_menu, choice "3", lines 637-640.
ReconfigureMenu ==
  /\ upc = "users_menu"
  /\ Configure("users_menu")

\* The main program is in its menu after check_access returned True, on a
\* host with an empty registry and no generated files.
InitRegistry ==
  /\ clock = FirstInstant
  /\ ticks = 0
  /\ running \in BOOLEAN
  /\ pc = "menu"
  /\ current_date = NoDate
  /\ code = None
  /\ expires_at = NoDate
  /\ cmp_now = NoDate
  /\ expired = FALSE
  /\ attempts = 0
  /\ entered = NoInput
  /\ entered_code = None
  /\ valid = FALSE
  /\ start_ok = FALSE
  /\ failures = 0
  /\ exit_path = "none"
  /\ stop_calls = 0
  /\ start_calls = 0
  /\ code_expired = "unknown"
  /\ exit_status = "none"
  /\ ApiInit
  /\ AdminInit

NextRegistry ==
  \/ EnterUsersMenu
  \/ LeaveUsersMenu
  \/ AddUserMenu
  \/ \E r \in 0..MaxRandom : GenerateDraw(r)
  \/ GenerateFails
  \/ InsertUser
  \/ DeleteUserMenu
  \/ CallDeleteUser
  \/ ConfigureAfterMutation
  \/ ReconfigureMenu

SpecRegistry == InitRegistry /\ [][NextRegistry]_vars

\* random.choice is fair: a number whose draw would end the loop of
\* generate_phone_number, again and again, is drawn.
SpecRegistryFair ==
  /\ SpecRegistry
  /\ \A r \in 0..MaxRandom : SF_<<upc, users>>(GenerateDraw(r))

(* --------------------------- SystemInstaller -------------------------- *)
(* serziamupdate.py: the installer and its menu. A step function changes   *)
(* the machine and returns "True", "False" or, without a return            *)
(* statement, "None"; done tells whether the step did its work.            *)

Systems ==
  [installed : SUBSET required_packages, firewall : BOOLEAN,
   asterisk : BOOLEAN, database : BOOLEAN]

StepOutcome(sys, result, done) ==
  [system |-> sys, result |-> result, done |-> done]

\* install_packages, lines 44-71: apt installs the missing packages and
\* True is returned, or apt fails and False is.
install_packages(sys) ==
  { [system |-> [sys EXCEPT !.installed = required_packages], result |-> "True"],
    [system |-> sys, result |-> "False"] }

\* check_and_install_packages, lines 8-42: the missing packages are handed
\* to install_packages, whose result is dropped; the function has no return
\* statement.
check_and_install_packages(sys) ==
  IF required_packages \ sys.installed # {}
  THEN { StepOutcome(o.system, "None", o.result = "True") : o \in install_packages(sys) }
  ELSE { StepOutcome(sys, "None", TRUE) }

\* configure_firewall, lines 73-115: True, or False on any exception.
configure_firewall(sys) ==
  { StepOutcome([sys EXCEPT !.firewall = TRUE], "True", TRUE),
    StepOutcome(sys, "False", FALSE) }

\* setup_asterisk, lines 117-168.
setup_asterisk(sys) ==
  { StepOutcome([sys EXCEPT !.asterisk = TRUE], "True", TRUE),
    StepOutcome(sys, "False", FALSE) }

\* SystemInstaller.initialize_database, lines 170-229.
initialize_database(sys) ==
  { StepOutcome([sys EXCEPT !.database = TRUE], "True", TRUE),
    StepOutcome(sys, "False", FALSE) }

\* full_system_install, lines 237-242: the steps in their order.
steps ==
  << "check_and_install_packages", "configure_firewall", "setup_asterisk",
     "initialize_database" >>

step_function(name, sys) ==
  CASE name = "check_and_install_packages" -> check_and_install_packages(sys)
    [] name = "configure_firewall" -> configure_firewall(sys)
    [] name = "setup_asterisk" -> setup_asterisk(sys)
    [] name = "initialize_database" -> initialize_database(sys)

\* if step_function(): of line 246.
truthy(result) == result = "True"

\* system_install_menu, choices 2 to 5: one step function on its own.
SystemInstallMenu ==
  /\ install_result # "running"
  /\ \E i \in 1..Len(steps) : \E o \in step_function(steps[i], system) :
       system' = o.system
  /\ UNCHANGED <<envVars, gateVars, apiVars, regVars, startVars,
                 steps_run, install_result>>

\* system_install_menu, choice 6: full_system_install is entered.
FullSystemInstall ==
  /\ install_result # "running"
  /\ steps_run' = <<>>
  /\ install_result' = "running"
  /\ UNCHANGED <<envVars, gateVars, apiVars, regVars, startVars, system>>

\* One turn of the loop of full_system_install, lines 244-252, and the
\* return True of line 256 after the last one.
FullSystemInstallStep ==
  /\ install_result = "running"
  /\ Len(steps_run) < Len(steps)
  /\ LET i == Len(steps_run) + 1
     IN  \E o \in step_function(steps[i], system) :
           /\ system' = o.system
           /\ steps_run' = Append(steps_run,
                [name |-> steps[i], result |-> o.result, done |-> o.done])
           /\ install_result' =
                IF truthy(o.result)
                THEN IF i = Len(steps) THEN "True" ELSE "running"
                ELSE "False"
  /\ UNCHANGED <<envVars, gateVars, apiVars, regVars, startVars>>

\* The installer's menu on any machine.
InitInstall ==
  /\ clock = FirstInstant
  /\ ticks = 0
  /\ running \in BOOLEAN
  /\ pc = "menu"
  /\ current_date = NoDate
  /\ code = None
  /\ expires_at = NoDate
  /\ cmp_now = NoDate
  /\ expired = FALSE
  /\ attempts = 0
  /\ entered = NoInput
  /\ entered_code = None
  /\ valid = FALSE
  /\ start_ok = FALSE
  /\ failures = 0
  /\ exit_path = "none"
  /\ stop_calls = 0
  /\ start_calls = 0
  /\ code_expired = "unknown"
  /\ exit_status = "none"
  /\ ApiInit
  /\ users = <<>>
  /\ upc = "none"
  /\ phone_number = None
  /\ candidate = None
  /\ extensions_conf = None
  /\ pjsip_conf = None
  /\ reg_last = NoCall
  /\ steps_run = <<>>
  /\ install_result = "none"
  /\ system \in Systems
  /\ db_init = "none"
  /\ expected_code = None

NextInstall ==
  \/ SystemInstallMenu
  \/ FullSystemInstall
  \/ FullSystemInstallStep

SpecInstall == InitInstall /\ [][NextInstall]_vars

(* ------------------------------- main() ------------------------------- *)
(* The main program from its first line: the construction of the menu     *)
(* manager and of the gate in it, then main_menu as in Spec.               *)

\* Faulty variant of ConstructGate: the error of the store is not caught
\* and reaches main(), which exits with status 1.
ConstructGate_raising ==
  /\ pc = "construct"
  /\ \E store_ok \in BOOLEAN :
       /\ db_init' = IF store_ok THEN "ok" ELSE "failed"
       /\ pc' = IF store_ok THEN "check_access" ELSE "exited"
       /\ exit_status' = IF store_ok THEN "none" ELSE "sys_exit_1"
  /\ UNCHANGED <<envVars, current_date, code, expires_at, cmp_now, expired,
                 attempts, entered, entered_code, valid, start_ok, failures,
                 exit_path, stop_calls, start_calls, code_expired, apiVars,
                 regVars, installVars, expected_code>>

\* AccessControlSystem.__init__, lines 450-451, with
\* HiddenAccessCodeManager.__init__ and initialize_database, lines 94-127:
\* the tables are created, or the store raises, the error is printed and
\* the construction goes on.
ConstructGate ==
  /\ pc = "construct"
  /\ \E store_ok \in BOOLEAN : db_init' = IF store_ok THEN "ok" ELSE "failed"
  /\ pc' = "check_access"
  /\ UNCHANGED <<envVars, current_date, code, expires_at, cmp_now, expired,
                 attempts, entered, entered_code, valid, start_ok, failures,
                 exit_path, sessionVars, apiVars, regVars, installVars,
                 expected_code>>

\* main() starts at an instant of a February, with Asterisk up or down.
StartInstants == InstantsOfMonth(FirstYear, 2)

InitStart ==
  /\ clock \in StartInstants
  /\ ticks = 0
  /\ running \in BOOLEAN
  /\ pc = "construct"
  /\ current_date = NoDate
  /\ code = None
  /\ expires_at = NoDate
  /\ cmp_now = NoDate
  /\ expired = FALSE
  /\ attempts = 0
  /\ entered = NoInput
  /\ entered_code = None
  /\ valid = FALSE
  /\ start_ok = FALSE
  /\ failures = 0
  /\ exit_path = "none"
  /\ stop_calls = 0
  /\ start_calls = 0
  /\ code_expired = "unknown"
  /\ exit_status = "none"
  /\ ApiInit
  /\ AdminInit

NextStart ==
  \/ ConstructGate
  \/ Next

SpecStart == InitStart /\ [][NextStart]_vars

(* ------------------------------ claims -------------------------------- *)

\* The alphabet A-Z0-9 and the calendar, as the specification states them.
SpecAlphabet ==
  <<"A","B","C","D","E","F","G","H","I","J","K","L","M",
    "N","O","P","Q","R","S","T","U","V","W","X","Y","Z",
    "0","1","2","3","4","5","6","7","8","9">>
SpecAlphabetSet == { SpecAlphabet[k] : k \in 1..Len(SpecAlphabet) }
SpecLeapYear(y) == (y % 4 = 0 /\ y % 100 # 0) \/ y % 400 = 0
SpecLastDay(y, m) ==
  IF m \in {4, 6, 9, 11} THEN 30
  ELSE IF m = 2 THEN (IF SpecLeapYear(y) THEN 29 ELSE 28)
  ELSE 31
GenerateOps == {"generate", "generate_default", "get_current_code"}

\* C1: a call of generate_deterministic_code with the arguments (period,
\* secret, length) of the first call returns the code the first call
\* returned, whatever the clock shows and whatever was called in between.
C1_Deterministic ==
  (memo # NoCall /\ last.op = "generate" /\ SameArguments(memo, last))
    => last.code = memo.code

\* The first call's arguments are derived again after the clock has moved
\* into another month.
C1_Witness ==
  /\ memo # NoCall
  /\ last.op = "generate"
  /\ SameArguments(memo, last)
  /\ calls = 2
  /\ last.length = DEFAULT_LENGTH
  /\ get_current_period(clock) # last.month_year

\* C2: generators sharing the secret return the same code for the same
\* period and length, whichever of the three copies they are an instance of.
C2_CopiesAgree ==
  /\ last.op \in GenerateOps => last.codeV = last.code
  /\ (last.op = "generate" /\ last.secret = T_SECRET_SEED)
       => last.codeT = last.code
  /\ SECRET_SEED = V_SECRET_SEED
  /\ SECRET_SEED = T_SECRET_SEED

C2_Witness ==
  /\ last.op = "generate"
  /\ last.secret = T_SECRET_SEED
  /\ last.length = MaxLen
  /\ last.codeT = last.code
  /\ last.codeV = last.code

\* C3: character i (0-based) of the derived code is the alphabet's character
\* at index (digest[i mod 32] + i) mod 36, for every position i below length,
\* in increasing order of i; the digest is that of the period named in the
\* call or, if none is named, of the period the clock shows.
C3_CharacterFormula ==
  last.op \in GenerateOps =>
    LET period == IF last.month_year = None
                  THEN get_current_period(clock) ELSE last.month_year
        digest == hmac_sha256_digest(last.secret, Text(period))
    IN  /\ Len(digest) = 32
        /\ Len(last.code) = last.length
        /\ \A k \in 1..last.length :
             last.code[k] =
               SpecAlphabet[((digest[((k - 1) % 32) + 1] + (k - 1)) % 36) + 1]

\* A code longer than the digest, with a position whose byte plus offset
\* exceeds one byte.
C3_Witness ==
  /\ last.op = "generate"
  /\ last.length > 32
  /\ LET digest == hmac_sha256_digest(last.secret, Text(last.month_year))
     IN  \E k \in 1..last.length : digest[((k - 1) % 32) + 1] + (k - 1) > 255

\* C4: a derived code has exactly `length` characters, each one of the 36
\* symbols A-Z0-9; with the default length it has 8 characters.
C4_LengthAndAlphabet ==
  /\ Cardinality(SpecAlphabetSet) = 36
  /\ last.op \in GenerateOps =>
       /\ Len(last.code) = last.length
       /\ \A k \in 1..Len(last.code) : last.code[k] \in SpecAlphabetSet
  /\ last.op = "get_current_code" => Len(last.code) = 8

C4_Witness ==
  /\ last.op = "get_current_code"
  /\ Len(last.code) = 8
  /\ \E k \in 1..8 : last.code[k] \in {"0","1","2","3","4","5","6","7","8","9"}

\* C5: is_code_expired, evaluated at one instant, returns False at every
\* instant of the calendar month, its last second and any fraction of that
\* second included.
C5_NotExpiredWithinMonth ==
  (pc = "branch" /\ current_date = cmp_now) => ~expired

\* C6: is_code_expired evaluated at the first instant of the month that
\* follows a period returns True.
C6_ExpiredAfterMonthEnd ==
  (/\ pc = "branch"
   /\ current_date = cmp_now
   /\ cmp_now.day = 1 /\ cmp_now.hour = 0 /\ cmp_now.minute = 0
   /\ cmp_now.second = 0 /\ cmp_now.microsecond = 0)
    => expired

\* The expiry computed for every month of 1970..2100, by both copies: a
\* statement about no state, evaluated where the program starts.
C7_AllMonths ==
  \A y \in 1970..2100, m \in 1..12 :
    LET e == datetime(y, m, SpecLastDay(y, m), 23, 59, 59, 0)
    IN  /\ expires_at_of(datetime(y, m, 1, 0, 0, 0, 0)) = e
        /\ expires_at_of(datetime(y, m, SpecLastDay(y, m), 23, 59, 59, 500000)) = e
        /\ V_expires_at_of(datetime(y, m, 15, 12, 30, 0, 0)) = e

\* C7: the expiry computed from a current date is 23:59:59 on the last
\* calendar day of its month and year, December staying in its own year;
\* 12-2024 gives 2024-12-31, 02-2024 gives 2024-02-29, 02-2025 gives
\* 2025-02-28.
C7_ExpiryIsLastSecondOfMonth ==
  /\ pc \in {"compare", "branch"} =>
       /\ expires_at = datetime(current_date.year, current_date.month,
                                SpecLastDay(current_date.year, current_date.month),
                                23, 59, 59, 0)
       /\ V_expires_at_of(current_date) = expires_at
  /\ (pc = "check_access" /\ clock = FirstInstant) => C7_AllMonths
  /\ expires_at_of(datetime(2024, 12, 7, 9, 0, 0, 0))
       = datetime(2024, 12, 31, 23, 59, 59, 0)
  /\ expires_at_of(datetime(2024, 2, 7, 9, 0, 0, 0))
       = datetime(2024, 2, 29, 23, 59, 59, 0)
  /\ expires_at_of(datetime(2025, 2, 7, 9, 0, 0, 0))
       = datetime(2025, 2, 28, 23, 59, 59, 0)

C7_Witness ==
  /\ pc = "branch"
  /\ current_date.month = 12
  /\ expires_at.year = current_date.year
  /\ expires_at.month = 12
  /\ expires_at.day = 31

\* C8: validate_code(input) is True exactly when input equals, character
\* for character, the 8-character code of the current period; the empty
\* string, a prefix, an extension and the code padded with whitespace or in
\* lower case are rejected.
C8_ValidateExact ==
  last.op = "validate" =>
    LET expected ==
          generate_deterministic_code(SECRET_SEED, get_current_period(clock),
                                      8, clock)
        rejected == {"empty", "blank", "prefix", "extension", "padded",
                     "lower_padded"}
    IN  /\ last.result <=> last.input.text = expected
        /\ last.resultV <=> last.input.text = expected
        /\ last.input.kind = "exact" => last.result /\ last.resultV
        /\ last.input.kind \in rejected => ~last.result /\ ~last.resultV
        /\ (last.input.kind = "lower" /\ str_lower(expected) # expected)
             => ~last.result /\ ~last.resultV

C8_Witness ==
  /\ last.op = "validate"
  /\ last.input.kind = "lower"
  /\ last.input.text # get_current_code(SECRET_SEED, clock)
  /\ str_upper(last.input.text) = get_current_code(SECRET_SEED, clock)
  /\ ~last.result

\* C9: the attempt counter starts at 3, stays in 0..3 and drops by exactly 1
\* on each failed validation; a failure with more than 1 attempt left leads
\* to another prompt, a failure with 1 left ends the dialogue, which then
\* reads no more input: the dialogue is left by exhaustion after exactly 3
\* failed validations.
C9_ThreeFailuresBlock ==
  /\ [](/\ attempts \in 0..3
        /\ pc = "prompt" => attempts \in 1..3 /\ failures = 3 - attempts
        /\ exit_path = "exhausted" => failures = 3 /\ attempts = 0)
  /\ [][/\ (pc = "branch" /\ pc' = "prompt") => attempts' = 3 /\ failures' = 0
        /\ attempts' # attempts =>
             \/ pc = "branch" /\ pc' = "prompt"
             \/ pc = "prompt" /\ attempts' = attempts - 1 /\ failures' = failures + 1
        /\ (pc = "prompt" /\ failures' # failures) =>
             /\ ~valid'
             /\ attempts' = attempts - 1
             /\ failures' = failures + 1
             /\ attempts > 1 => pc' = "prompt"
             /\ attempts = 1 => pc' = "blocked" /\ exit_path' = "exhausted"
        /\ (pc = "prompt" /\ entered' # entered /\ ~valid') =>
             failures' = failures + 1
        /\ pc \in {"blocked", "exited"} =>
             /\ pc' \in {"blocked", "exited"}
             /\ UNCHANGED <<attempts, failures, entered, entered_code, valid>>
       ]_vars

C9_Witness ==
  /\ pc = "blocked"
  /\ exit_path = "exhausted"
  /\ failures = 3
  /\ attempts = 0

\* C10 as stated: from the prompt, a successful validation leads to the menu
\* with the service running.
C10_SuccessUnlocks ==
  [][(pc = "prompt" /\ valid') => (pc' = "menu" /\ running')]_vars

\* C10 amended: from the prompt with any number of attempts left, a
\* successful validation calls start(); when start() returns True the menu
\* is entered with the service running, when it returns False or is
\* interrupted check_access returns False and the menu is not entered.
C10_SuccessStartsService ==
  [][(pc = "prompt" /\ valid') =>
       /\ attempts' = attempts
       /\ start_ok' => pc' = "menu" /\ running' /\ exit_path' = "unlocked"
       /\ ~start_ok' =>
            /\ pc' = "blocked"
            /\ exit_path' \in {"start_failed", "start_interrupted"}
    ]_vars

\* The code is accepted at the last attempt and the service starts.
C10_Witness ==
  /\ pc = "menu"
  /\ exit_path = "unlocked"
  /\ valid
  /\ start_ok
  /\ running
  /\ attempts = 1

\* The positions of main_menu inside its one call of check_access, before
\* the expiry check has decided.
Checking == {"check_access", "read_code", "compare", "branch"}

\* C11: the gate's initial state is decided by one expiry check at process
\* start. Until it has decided nothing is stopped, started or prompted; the
\* check is never entered again; when is_code_expired is False check_access
\* returns True with the service untouched and no prompt; when it is True the
\* gate is LOCKED and the unlock dialogue begins with 3 attempts.
C11_InitialStateByOneCheck ==
  /\ [](pc \in Checking =>
          /\ stop_calls = 0 /\ start_calls = 0
          /\ entered = NoInput /\ attempts = 0
          /\ GateState = (IF pc = "branch" /\ expired THEN "LOCKED" ELSE "NONE"))
  /\ [][/\ pc' \in Checking => pc \in Checking
        /\ expired' # expired => pc = "compare" /\ pc' = "branch"
        /\ (pc = "branch" /\ ~expired) =>
             /\ pc' \in {"branch", "menu"}
             /\ UNCHANGED <<running, stop_calls, start_calls, entered, attempts>>
        /\ (pc = "branch" /\ expired /\ pc' # pc) =>
             /\ pc' = "prompt"
             /\ attempts' = 3
             /\ stop_calls' = 1
             /\ entered' = NoInput
        /\ (pc = "branch" /\ pc' = "menu") => ~expired
       ]_vars

\* The check found the code expired and the dialogue begins.
C11_Witness ==
  /\ pc = "prompt"
  /\ GateState = "PROMPTING"
  /\ attempts = 3
  /\ stop_calls = 1
  /\ entered = NoInput

\* C12: in a run of check_access that finds the code expired stop() is
\* called exactly once, before the first prompt, and start() at most once
\* and only in the step in which a validation succeeds; a path that ends by
\* exhausted attempts or by a cancelled prompt has not called start().
C12_StopOnceStartAfterSuccess ==
  /\ [](/\ stop_calls \in 0..1 /\ start_calls \in 0..1
        /\ pc = "prompt" => stop_calls = 1 /\ start_calls = 0
        /\ entered # NoInput => stop_calls = 1 \/ pc \in {"menu", "exited"}
        /\ exit_path # "none" => stop_calls = 1
        /\ exit_path \in {"exhausted", "cancelled"} => start_calls = 0
        /\ start_calls = 1 <=>
             exit_path \in {"unlocked", "start_failed", "start_interrupted"})
  /\ [][/\ stop_calls' # stop_calls =>
             /\ pc = "branch" /\ expired /\ pc' = "prompt"
             /\ entered = NoInput
        /\ start_calls' # start_calls =>
             /\ pc = "prompt" /\ valid'
             /\ start_calls' = start_calls + 1
        /\ (pc = "prompt" /\ valid') => start_calls' = start_calls + 1
       ]_vars

\* The dialogue ended by exhaustion: one stop(), no start().
C12_Witness ==
  /\ exit_path = "exhausted"
  /\ stop_calls = 1
  /\ start_calls = 0
  /\ failures = 3

\* C13: the prompt can be cancelled with 1, 2 or 3 attempts left; the
\* cancellation ends the dialogue at once with the counter, the service and
\* the last input untouched, the gate is BLOCKED, and from then on no line
\* is read and the menu is not entered.
C13_CancelBlocks ==
  /\ [](/\ pc = "prompt" => attempts \in 1..3 /\ ENABLED CancelPrompt
        /\ exit_path = "cancelled" =>
             /\ pc \in {"blocked", "exited"}
             /\ GateState = "BLOCKED"
             /\ start_calls = 0
             /\ exit_status # "sys_exit_0")
  /\ [][/\ (exit_path' = "cancelled" /\ exit_path # "cancelled") =>
             /\ pc = "prompt" /\ pc' = "blocked"
             /\ UNCHANGED <<attempts, failures, entered, entered_code, valid,
                            running, start_calls>>
        /\ exit_path = "cancelled" =>
             /\ pc' \in {"blocked", "exited"}
             /\ UNCHANGED <<exit_path, entered, entered_code, valid, attempts>>
       ]_vars

\* The prompt was cancelled at the last attempt, after two wrong codes.
C13_Witness ==
  /\ exit_path = "cancelled"
  /\ pc = "blocked"
  /\ attempts = 1
  /\ failures = 2

\* C14: once check_access has returned True the gate stays UNLOCKED. From
\* the menu every step stays in the menu or is the operator's exit; no step
\* calls the stop() or the prompt of check_access again, whatever the clock
\* shows and whatever is_code_expired now returns; the service changes state
\* only by the operator's control menu, never in a step that advances the
\* clock or evaluates the expiry; and the menu, with its control of the
\* service, stays available.
C14_UnlockedPersists ==
  /\ [](pc = "menu" =>
          /\ GateState = "UNLOCKED"
          /\ ENABLED AsteriskControlMenu)
  /\ [][pc = "menu" =>
          /\ pc' \in {"menu", "exited"}
          /\ pc' = "exited" => exit_status' = "sys_exit_0"
          /\ UNCHANGED <<stop_calls, start_calls, attempts, failures, expired,
                         exit_path>>
          /\ (clock' # clock \/ code_expired' # code_expired) =>
               /\ running' = running
               /\ pc' = "menu"
       ]_vars

\* check_access returned True without a dialogue; later is_code_expired was
\* True in the system check and the month rolled over: the menu goes on and
\* the service runs.
C14_Witness ==
  /\ pc = "menu"
  /\ stop_calls = 0
  /\ code_expired = "expired"
  /\ clock.day = 1
  /\ ticks > 0
  /\ running
  /\ entered # NoInput

\* C15: BLOCKED is terminal and a denial. Once check_access has returned
\* False the only step of the program is the return of main_menu and of
\* main(): no line is read, no menu operation runs, the service and the
\* counters of the dialogue stay as they are, and the process ends by a
\* plain return, not by an exception or an exit status.
C15_BlockedIsTerminalDenial ==
  /\ [](/\ pc = "blocked" =>
             /\ GateState = "BLOCKED"
             /\ exit_status = "none"
             /\ code_expired = "unknown"
             /\ ENABLED AccessDenied
        /\ exit_status = "returned" =>
             /\ pc = "exited"
             /\ exit_path \in {"exhausted", "cancelled", "start_failed",
                               "start_interrupted"}
             /\ code_expired = "unknown")
  /\ [][pc = "blocked" =>
          /\ pc' \in {"blocked", "exited"}
          /\ pc' = "exited" => exit_status' = "returned"
          /\ UNCHANGED <<running, entered, entered_code, valid, attempts,
                         failures, exit_path, stop_calls, start_calls,
                         code_expired>>
       ]_vars

\* The dialogue was exhausted and the process has ended by returning.
C15_Witness ==
  /\ pc = "exited"
  /\ exit_status = "returned"
  /\ exit_path = "exhausted"
  /\ code_expired = "unknown"

\* C16: in the step in which the clock rolls over from month M to month M+1
\* the code that validate_code accepted during M stops being accepted and
\* the code derived for M+1 is accepted; a validate_code call made in M+1
\* with the code of M (valid at every instant of M) returns False, one with
\* the code derived for M+1 returns True.
C16_RolloverReplacesCode ==
  /\ [](last.op = "validate" =>
          /\ last.input.kind = "previous" =>
               /\ \A t \in InstantsOfMonth(PreviousMonth(clock).year,
                                           PreviousMonth(clock).month) :
                    validate_code(last.input.text, t)
               /\ ~last.result
          /\ last.input.text
               = generate_deterministic_code(SECRET_SEED,
                   get_current_period(clock), DEFAULT_LENGTH, clock)
               => last.result)
  /\ [][clock'.month # clock.month =>
          LET old == get_current_code(SECRET_SEED, clock)
              new == get_current_code(SECRET_SEED, clock')
          IN  /\ validate_code(old, clock)
              /\ ~validate_code(old, clock')
              /\ validate_code(new, clock')
              /\ ~validate_code(new, clock)
       ]_vars

\* December's code is rejected on the first of January.
C16_Witness ==
  /\ last.op = "validate"
  /\ last.input.kind = "previous"
  /\ ~last.result
  /\ clock = datetime(LastYear, 1, 1, 0, 0, 0, 0)

\* What the operator's line is before validation, as C17 states it.
SpecNormalised(line) == str_upper(str_strip(line))
\* The ways of typing the current code: any letter case, any surrounding
\* whitespace.
CurrentCodeKinds == {"exact", "lower", "padded", "lower_padded", "mixed_padded"}

\* C17: on every path on which a code is typed the line is stripped and
\* upper-cased before it is validated, so the current code typed in any
\* letter case and with surrounding whitespace is accepted: at the unlock
\* prompt and in the validation menu of serziam.py (the last line typed,
\* what was validated and the result), and in the validation menu of
\* serziamvalidator.py for every line typed at an instant the clock shows
\* (each of them is shown while the program starts).
C17_TypedCodeNormalised ==
  /\ entered # NoInput =>
       /\ entered_code = SpecNormalised(entered.text)
       /\ entered.kind \in CurrentCodeKinds => valid
       /\ valid => entered.kind \in CurrentCodeKinds
  /\ pc = "check_access" =>
       \A inp \in KeyboardInputs(clock) :
         /\ V_menu_test_code(inp.text) = SpecNormalised(inp.text)
         /\ inp.kind \in CurrentCodeKinds <=>
              V_validate_code(V_menu_test_code(inp.text), clock)

\* The current code, typed in mixed case between whitespace at the unlock
\* prompt, was accepted and unlocked the gate.
C17_Witness ==
  /\ pc = "menu"
  /\ exit_path = "unlocked"
  /\ start_calls = 1
  /\ entered.kind = "mixed_padded"
  /\ entered_code # entered.text
  /\ valid

\* MM-YYYY as the specification writes it: two digits of the month, a
\* hyphen, four digits of the year.
SpecDigits == <<"0", "1", "2", "3", "4", "5", "6", "7", "8", "9">>
SpecPeriod(m, y) ==
  << SpecDigits[(m \div 10) + 1], SpecDigits[(m % 10) + 1], "-",
     SpecDigits[(y \div 1000) + 1], SpecDigits[((y \div 100) % 10) + 1],
     SpecDigits[((y \div 10) % 10) + 1], SpecDigits[(y % 10) + 1] >>

\* The format for every month of the years 1970..9999 that datetime has.
C18_AllMonths ==
  \A y \in 1970..9999, m \in 1..12 :
    LET p == get_current_period(datetime(y, m, 1, 0, 0, 0, 0))
    IN  Len(p) = 7 /\ p = SpecPeriod(m, y)

\* C18: get_current_period returns the 7 characters MM-YYYY of the instant
\* of the call, the month zero-padded; the call changes nothing but its
\* result; the string is the same at every instant of that calendar month
\* and differs at every instant of another month.
C18_PeriodFormat ==
  /\ [](/\ last.op = "get_current_period" =>
             /\ Len(last.code) = 7
             /\ last.code = SpecPeriod(clock.month, clock.year)
             /\ last.codeV = last.code
             /\ \A t \in Instants :
                  get_current_period(t) = last.code
                    <=> (t.year = clock.year /\ t.month = clock.month)
        /\ (clock = FirstInstant /\ last = NoCall /\ memo = NoCall)
             => C18_AllMonths)
  /\ [][last'.op = "get_current_period" =>
          UNCHANGED <<envVars, gateVars, adminVars, memo, calls>>]_vars

\* The period of a single-digit month, read in the month's last second.
C18_Witness ==
  /\ last.op = "get_current_period"
  /\ last.code = <<"0", "9", "-", "2", "0", "2", "4">>
  /\ clock.day = 30
  /\ clock.hour = 23

\* C19: get_current_code returns generate_deterministic_code of the period
\* of the instant of the call with length 8; it returns that same code at
\* every instant of the calendar month, whatever the day and the time; and
\* generate_deterministic_code called without a period returns it too.
C19_CurrentCodeOfPeriod ==
  /\ last.op = "get_current_code" =>
       /\ Len(last.code) = 8
       /\ last.code = generate_deterministic_code(last.secret,
                        SpecPeriod(clock.month, clock.year), 8, clock)
       /\ last.code = generate_deterministic_code(last.secret, None, 8, clock)
       /\ \A t \in InstantsOfMonth(clock.year, clock.month) :
            get_current_code(last.secret, t) = last.code
  /\ (last.op = "generate_default" /\ last.length = 8) =>
       /\ last.code = get_current_code(last.secret, clock)
       /\ \A t \in InstantsOfMonth(clock.year, clock.month) :
            generate_deterministic_code(last.secret, None, 8, t) = last.code

\* get_current_code called in the last second of a month.
C19_Witness ==
  /\ last.op = "get_current_code"
  /\ last.secret = SECRET_SEED
  /\ Len(last.code) = 8
  /\ clock.hour = 23
  /\ clock.microsecond > 0

\* The 0-based position of a character in the alphabet A-Z0-9.
SpecIndex(c) == CHOOSE n \in 0..35 : SpecAlphabet[n + 1] = c

\* C20: a derivation with a length above 32 yields a code of that length
\* over the alphabet; each character i >= 32 (0-based) comes from the digest
\* byte of character i-32 with the offset i, and its alphabet index is the
\* index of character i-32 plus 32, modulo 36.
C20_WrapBeyondDigest ==
  (last.op \in GenerateOps /\ last.length > 32) =>
    LET period == IF last.month_year = None
                  THEN get_current_period(clock) ELSE last.month_year
        digest == hmac_sha256_digest(last.secret, Text(period))
    IN  /\ Len(last.code) = last.length
        /\ \A i \in 0..(last.length - 1) : last.code[i + 1] \in SpecAlphabetSet
        /\ \A i \in 32..(last.length - 1) :
             /\ last.code[i + 1]
                  = SpecAlphabet[((digest[(i - 32) + 1] + i) % 36) + 1]
             /\ last.code[(i - 32) + 1]
                  = SpecAlphabet[((digest[(i - 32) + 1] + (i - 32)) % 36) + 1]
             /\ SpecIndex(last.code[i + 1])
                  = (SpecIndex(last.code[(i - 32) + 1]) + 32) % 36

\* A code of more than 32 characters whose characters 32 and 33 both stem
\* from reused digest bytes.
C20_Witness ==
  /\ last.op = "generate"
  /\ last.length = MaxLen
  /\ Len(last.code) > 33
  /\ SpecIndex(last.code[33]) = (SpecIndex(last.code[1]) + 32) % 36
  /\ SpecIndex(last.code[34]) = (SpecIndex(last.code[2]) + 32) % 36

\* A number as C21 states it: 601 followed by 6 decimal digits.
SpecIsNumber601(n) ==
  /\ Len(n) = 9
  /\ SubSeq(n, 1, 3) = <<"6", "0", "1">>
  /\ \A k \in 4..9 : \E d \in 1..10 : SpecDigits[d] = n[k]

\* C21: no two rows of the registry have the same number, whatever was added
\* and deleted; a number generate_phone_number returns is 601 followed by 6
\* digits and no row had it when it was returned; the rows hold such numbers
\* only.
C21_UniqueNumbers ==
  /\ [](/\ \A i, j \in 1..Len(users) :
             users[i].numero = users[j].numero => i = j
        /\ \A i \in 1..Len(users) : SpecIsNumber601(users[i].numero)
        /\ phone_number # None =>
             /\ upc = "insert"
             /\ SpecIsNumber601(phone_number)
             /\ ~select_by_numero(users, phone_number))
  /\ [][(phone_number' # None /\ upc = "generate") =>
          /\ SpecIsNumber601(phone_number')
          /\ \A i \in 1..Len(users) : users[i].numero # phone_number'
          /\ users' = users
       ]_vars

\* A number was returned after a colliding draw, with one user registered
\* and another deleted before.
C21_Witness ==
  /\ upc = "insert"
  /\ Len(users) = 1
  /\ phone_number # None
  /\ phone_number # users[1].numero
  /\ extensions_conf # None
  /\ Len(extensions_conf) = 2

\* C22: a call of generate_phone_number eventually returns, whatever the
\* registry holds, the random choice being fair.
C22_GenerateReturns == (upc = "generate") ~> (upc # "generate")

\* A generated file has one entry for exactly each number of the rows.
SpecOneEntryEach(names, rows) ==
  /\ Len(names) = Len(rows)
  /\ \A i \in 1..Len(rows) :
       Cardinality({k \in 1..Len(names) : names[k] = rows[i].numero}) = 1
\* The endpoints pjsip.conf defines.
SpecEndpoints(sections) ==
  LET RECURSIVE pick(_)
      pick(k) == IF k = 0 THEN <<>>
                 ELSE IF sections[k].type = "endpoint"
                 THEN Append(pick(k - 1), sections[k].name)
                 ELSE pick(k - 1)
  IN  pick(Len(sections))

\* C23: a successful add_user or delete_user made through the users menu is
\* followed by configure_asterisk before the menu is back, and that call
\* leaves extensions.conf and pjsip.conf with one entry for exactly each
\* number then in the registry.
C23_ConfigFollowsMutation ==
  [][/\ (upc # "none" /\ reg_last'.op \in {"add_user", "delete_user"}
           /\ reg_last'.ok /\ reg_last' # reg_last) => upc' = "configure"
     /\ users' # users => (upc' = "configure" \/ upc = "none")
     /\ (upc = "configure" /\ upc' # upc) =>
          /\ upc' = "users_menu"
          /\ users' = users
          /\ reg_last'.op = "configure_asterisk"
          /\ extensions_conf' # None /\ pjsip_conf' # None
          /\ SpecOneEntryEach(extensions_conf', users')
          /\ SpecOneEntryEach(SpecEndpoints(pjsip_conf'), users')
    ]_vars

\* The part of C23 the code keeps: the call always follows, and the files
\* list exactly the registry when the call returned True after reading the
\* store.
C23_ConfigFollowsWhenStoreReadable ==
  [][/\ (upc # "none" /\ reg_last'.op \in {"add_user", "delete_user"}
           /\ reg_last'.ok /\ reg_last' # reg_last) => upc' = "configure"
     /\ users' # users => (upc' = "configure" \/ upc = "none")
     /\ (upc = "configure" /\ upc' # upc) =>
          /\ upc' = "users_menu"
          /\ users' = users
          /\ reg_last'.op = "configure_asterisk"
          /\ (reg_last'.ok /\ reg_last'.listed) =>
               /\ SpecOneEntryEach(extensions_conf', users')
               /\ SpecOneEntryEach(SpecEndpoints(pjsip_conf'), users')
    ]_vars

\* C24: a failing collaborator does not break the gate. The construction
\* goes on to check_access whether the store could be initialised or not;
\* a stop() that fails leads to the dialogue all the same, a start() that
\* fails makes check_access return False; the process never ends by an
\* exception; and whatever failed, validate_code accepts exactly the code
\* get_current_code derives for the period of the clock.
C24_CollaboratorFailuresContained ==
  /\ [](/\ exit_status \in {"none", "returned", "sys_exit_0"}
        /\ pc # "construct" => db_init \in {"ok", "failed"}
        /\ exit_path = "start_failed" =>
             /\ ~start_ok
             /\ pc \in {"blocked", "exited"}
             /\ pc = "exited" => exit_status = "returned"
        /\ entered # NoInput => (valid <=> entered.kind \in CurrentCodeKinds))
  /\ [][/\ (pc = "construct" /\ pc' # pc) => pc' = "check_access"
        /\ (pc = "branch" /\ expired /\ pc' # pc) => pc' = "prompt"
        /\ (entered' # entered \/ valid' # valid) =>
             (valid' <=> entered_code'
                          = generate_deterministic_code(SECRET_SEED,
                              SpecPeriod(clock.month, clock.year), 8, clock))
       ]_vars

\* The store could not be initialised, stop() left the service running and
\* start() failed after the correct code: check_access returned False.
C24_Witness ==
  /\ db_init = "failed"
  /\ exit_path = "start_failed"
  /\ pc = "exited"
  /\ exit_status = "returned"
  /\ valid
  /\ running

\* C25: whenever the gate is PROMPTING or BLOCKED the gated service is not
\* running: the dialogue is entered only once the service has been stopped,
\* and it stays stopped until a validation succeeds.
C25_StoppedWhileLocked ==
  GateState \in {"PROMPTING", "BLOCKED"} => ~running

\* C26: the code and the expiry returned by get_current_code_with_expiry
\* belong to one and the same period, and is_code_expired compares the
\* clock with the expiry of the period of the clock value it compares,
\* whatever the clock does between the reads.
C26_OnePeriodAcrossReads ==
  /\ pc \in {"compare", "branch"} =>
       /\ expires_at = expires_at_of(current_date)
       /\ code = get_current_code(SECRET_SEED, current_date)
  /\ pc = "branch" => expires_at = expires_at_of(cmp_now)

\* C27: throughout one unlock dialogue every attempt is validated against
\* the code of the period that was current when the dialogue started
\* (expected_code), whatever the clock does while the dialogue waits.
C27_DialogueKeepsItsCode ==
  [][(pc = "prompt" /\ (attempts' # attempts \/ start_calls' # start_calls))
       => (valid' <=> entered_code' = expected_code)]_vars

\* C28: full_system_install runs its four steps in their fixed order,
\* stops at the first step that fails, returning False without running a
\* later step, and when every step succeeds runs all four and returns True.
C28_InstallStopsAtFirstFailure ==
  /\ Len(steps_run) <= Len(steps)
  /\ \A i \in 1..Len(steps_run) : steps_run[i].name = steps[i]
  /\ \A i \in 1..Len(steps_run) - 1 : steps_run[i].done
  /\ install_result = "False" =>
       (steps_run # <<>> /\ ~steps_run[Len(steps_run)].done)
  /\ install_result = "True" =>
       (Len(steps_run) = Len(steps) /\ \A i \in 1..Len(steps) : steps_run[i].done)
  /\ install_result = "running" =>
       (Len(steps_run) < Len(steps) /\ \A i \in 1..Len(steps_run) : steps_run[i].done)

\* C29: for the same secret and period, the code derived with length m is
\* the first m characters of the code derived with any length n >= m.
C29_ShorterCodeIsPrefix ==
  last.op = "generate" =>
    \A m \in 0..last.length :
      generate_deterministic_code(last.secret, last.month_year, m, clock)
        = SubSeq(last.code, 1, m)

\* A code of the greatest length has been derived for a named period; the
\* code of the default length for it is a proper, non-empty prefix.
C29_Witness ==
  /\ last.op = "generate"
  /\ last.month_year # None
  /\ Len(last.code) = MaxLen
  /\ Len(generate_deterministic_code(last.secret, last.month_year, DEFAULT_LENGTH, clock))
       = DEFAULT_LENGTH
  /\ generate_deterministic_code(last.secret, last.month_year, DEFAULT_LENGTH, clock)
       = SubSeq(last.code, 1, DEFAULT_LENGTH)

\* The rows of a registry but those with the given number.
SpecWithout(rows, numero) ==
  LET Other(row) == row.numero # numero
  IN  SelectSeq(rows, Other)

\* add_user returned the number of the one entry it appended, or returned
\* False and left the registry as it was.
SpecAddUserFrame ==
  reg_last'.op = "add_user" =>
    IF reg_last'.ok
    THEN /\ Len(users') = Len(users) + 1
         /\ SubSeq(users', 1, Len(users)) = users
         /\ users'[Len(users')].numero = reg_last'.numero
         /\ ~select_by_numero(users, reg_last'.numero)
    ELSE users' = users

\* C30 as stated: add_user inserts exactly one new entry and returns its
\* number, or returns False and leaves the registry unchanged; delete_user
\* removes exactly the entry with the given number, leaves every other
\* entry unchanged, and for a number not in the registry changes nothing
\* and still returns True.
C30_RegistryFrameAlways ==
  [][(reg_last' # reg_last \/ users' # users) =>
       /\ SpecAddUserFrame
       /\ reg_last'.op = "delete_user" =>
            /\ users' = SpecWithout(users, reg_last'.numero)
            /\ ~select_by_numero(users, reg_last'.numero) => reg_last'.ok
       /\ users' # users => reg_last'.op \in {"add_user", "delete_user"}
    ]_vars

\* C30, amended: add_user as stated; delete_user removes exactly the entry
\* with the given number, leaving every other entry unchanged, and returns
\* True, also for a number not in the registry, where nothing changes; or
\* the store raises, and it returns False and leaves the registry unchanged.
C30_RegistryFrame ==
  [][(reg_last' # reg_last \/ users' # users) =>
       /\ SpecAddUserFrame
       /\ reg_last'.op = "delete_user" =>
            /\ users' = IF reg_last'.ok
                        THEN SpecWithout(users, reg_last'.numero)
                        ELSE users
            /\ ~select_by_numero(users, reg_last'.numero) => users' = users
       /\ users' # users => reg_last'.op \in {"add_user", "delete_user"}
    ]_vars

\* The menu has deleted an entry of a full registry: the others are left.
C30_Witness ==
  /\ reg_last.op = "delete_user"
  /\ reg_last.ok
  /\ Len(users) = MaxRandom
  /\ \A i \in 1..Len(users) : users[i].numero # reg_last.numero
  /\ upc = "configure"
=============================================================================
